---- MODULE Spec2Model ----
(***************************************************************************)
(* A model of the classification-serving API of the spam detector          *)
(* (api/main.py): configuration read at import, the startup hook that      *)
(* loads the model bundle, threshold resolution, and the request handlers  *)
(* /health, /profiles, /predict, /batch and /file-predict.                 *)
(*                                                                         *)
(* Conventions.  A Python str is a sequence of one-character strings.      *)
(* A float that is a probability or a threshold is an integer number of    *)
(* hundredths (0.65 is 65).  An optional value is a sequence of length at  *)
(* most one: None is <<>> and a present value v is <<v>>.  A dict is a     *)
(* function; the empty dict is the function with the empty domain.         *)
(***************************************************************************)
EXTENDS Integers, Sequences, FiniteSets, TLC

(***************************************************************************)
(* Bounds of the model.                                                    *)
(***************************************************************************)
MaxTextLen == 2
MaxBatchCfg == 2

(***************************************************************************)
(* Python str operations.                                                  *)
(***************************************************************************)
UPPER == <<"A","B","C","D","E","F","G","H","I","J","K","L","M",
           "N","O","P","Q","R","S","T","U","V","W","X","Y","Z">>
LOWER == <<"a","b","c","d","e","f","g","h","i","j","k","l","m",
           "n","o","p","q","r","s","t","u","v","w","x","y","z">>

LowerChar(c) ==
    IF \E i \in 1..Len(UPPER) : UPPER[i] = c
    THEN LOWER[CHOOSE i \in 1..Len(UPPER) : UPPER[i] = c]
    ELSE c

\* str.lower()
Lower(s) == [i \in 1..Len(s) |-> LowerChar(s[i])]

Whitespace == {" ", "\t", "\n", "\r"}

RECURSIVE LStrip(_)
LStrip(s) ==
    IF s # <<>> /\ Head(s) \in Whitespace THEN LStrip(Tail(s)) ELSE s

RECURSIVE RStrip(_)
RStrip(s) ==
    IF s # <<>> /\ s[Len(s)] \in Whitespace
    THEN RStrip(SubSeq(s, 1, Len(s) - 1))
    ELSE s

\* str.strip()
Strip(s) == RStrip(LStrip(s))

\* The number of occurrences of character c in s.
RECURSIVE CountChar(_, _)
CountChar(s, c) ==
    IF s = <<>> THEN 0
    ELSE (IF Head(s) = c THEN 1 ELSE 0) + CountChar(Tail(s), c)

\* str.rfind(c): the last index of c in s (1-based), 0 when absent.
RECURSIVE RFind(_, _)
RFind(s, c) ==
    IF s = <<>> THEN 0
    ELSE IF s[Len(s)] = c THEN Len(s)
    ELSE RFind(SubSeq(s, 1, Len(s) - 1), c)

\* All sequences over S of length at most n.
SeqsUpTo(S, n) == UNION {[1..k -> S] : k \in 0..n}

(***************************************************************************)
(* float(str) for plain decimal literals: optional surrounding whitespace, *)
(* an optional sign, digits with at most one point.  Anything else raises  *)
(* ValueError (ok = FALSE).  The value is in hundredths; the literals used *)
(* carry at most two decimals, so it is exact.                             *)
(***************************************************************************)
Digits == <<"0","1","2","3","4","5","6","7","8","9">>
IsDigit(c) == \E i \in 1..10 : Digits[i] = c
DigitVal(c) == (CHOOSE i \in 1..10 : Digits[i] = c) - 1

RECURSIVE DigitsVal(_)
DigitsVal(s) ==
    IF s = <<>> THEN 0
    ELSE DigitsVal(SubSeq(s, 1, Len(s) - 1)) * 10 + DigitVal(s[Len(s)])

ParseFloat(str) ==
    LET s    == Strip(str)
        neg  == s # <<>> /\ Head(s) = "-"
        body == IF s # <<>> /\ Head(s) \in {"-", "+"} THEN Tail(s) ELSE s
        dot  == RFind(body, ".")
        ip   == IF dot = 0 THEN body ELSE SubSeq(body, 1, dot - 1)
        fp   == IF dot = 0 THEN <<>> ELSE SubSeq(body, dot + 1, Len(body))
        fp2  == SubSeq(fp \o <<"0", "0">>, 1, 2)
        ok   == /\ Len(ip) + Len(fp) >= 1
                /\ \A i \in 1..Len(ip) : IsDigit(ip[i])
                /\ \A i \in 1..Len(fp) : IsDigit(fp[i])
        mag  == DigitsVal(ip) * 100 + DigitsVal(fp2)
    IN  IF ok THEN [ok |-> TRUE, val |-> IF neg THEN 0 - mag ELSE mag]
        ELSE [ok |-> FALSE, val |-> 0]

(***************************************************************************)
(* Profiles (api/main.py, "single source of truth").                       *)
(***************************************************************************)
K_default      == <<"d","e","f","a","u","l","t">>
K_telco        == <<"t","e","l","c","o">>
K_bank         == <<"b","a","n","k">>
K_marketing    == <<"m","a","r","k","e","t","i","n","g">>
K_aggressive   == <<"a","g","g","r","e","s","s","i","v","e">>
K_balanced     == <<"b","a","l","a","n","c","e","d">>
K_conservative == <<"c","o","n","s","e","r","v","a","t","i","v","e">>

A_financial       == <<"f","i","n","a","n","c","i","a","l">>
A_telecom         == <<"t","e","l","e","c","o","m">>
A_email_marketing == <<"e","m","a","i","l","_","m","a","r","k","e","t","i","n","g">>
A_newsletter      == <<"n","e","w","s","l","e","t","t","e","r">>

ProfileKeys ==
    {K_default, K_telco, K_bank, K_marketing, K_aggressive, K_balanced,
     K_conservative}

PROFILE_DEFINITIONS ==
    [k \in ProfileKeys |->
        CASE k = K_default      -> [label |-> "Default (balanced)", threshold |-> 55]
          [] k = K_telco        -> [label |-> "Telecom / SMS filtering", threshold |-> 55]
          [] k = K_bank         -> [label |-> "Bank / Financial (very strict)", threshold |-> 65]
          [] k = K_marketing    -> [label |-> "Email marketing / newsletters (aggressive)", threshold |-> 45]
          [] k = K_aggressive   -> [label |-> "Aggressive (max spam capture)", threshold |-> 45]
          [] k = K_balanced     -> [label |-> "Balanced (general use)", threshold |-> 55]
          [] k = K_conservative -> [label |-> "Conservative (protect REAL messages)", threshold |-> 60]]

PROFILE_THRESHOLDS ==
    [k \in DOMAIN PROFILE_DEFINITIONS |-> PROFILE_DEFINITIONS[k].threshold]

AliasKeys == {A_financial, A_telecom, A_email_marketing, A_newsletter}

PROFILE_ALIASES ==
    [a \in AliasKeys |->
        CASE a = A_financial       -> K_bank
          [] a = A_telecom         -> K_telco
          [] a = A_email_marketing -> K_marketing
          [] a = A_newsletter      -> K_marketing]

\* dict.get(key, default)
DictGet(d, key, default) == IF key \in DOMAIN d THEN d[key] ELSE default


\* Optional values: None is the empty sequence, a present value v is <<v>>.
None == <<>>
Some(v) == <<v>>
IsNone(o) == o = <<>>
Val(o) == o[1]

(***************************************************************************)
(* The environment the process is started in, and the artifact found at    *)
(* MODEL_PATH.                                                             *)
(***************************************************************************)
E_BANK  == <<"B","A","N","K">>
E_nope  == <<"n","o","p","e">>

\* Values of the SYSTEM_PROFILE environment variable (absent: "default").
E_FINANCIAL == <<"F","I","N","A","N","C","I","A","L">>
EnvSystemProfiles == {K_default, E_FINANCIAL, E_nope}

\* Values of the SPAM_THRESHOLD environment variable (None: not set).
EnvSpamThresholds ==
    { None,
      Some(<<"a","b","c">>),
      Some(<<" ","0",".","3">>),
      Some(<<"1",".","5">>) }

\* Values of int(MAX_BATCH).
EnvMaxBatch == 0..MaxBatchCfg

C_ham  == <<"h","a","m">>
C_spam == <<"s","p","a","m">>

\* Classifiers a bundle may hold: the class labels (classes_), the column
\* that carries the positive (spam-like) class, and whether the estimator
\* has predict_proba.
Clf_LR   == [name |-> "LogisticRegression", classes |-> <<C_ham, C_spam>>,
             pos |-> 2, has_predict_proba |-> TRUE]
Clf_Int  == [name |-> "CalibratedClassifierCV", classes |-> <<<<"0">>, <<"1">>>>,
             pos |-> 2, has_predict_proba |-> TRUE]
Clf_Tri  == [name |-> "MultinomialNB", classes |-> <<<<"0">>, <<"1">>, <<"2">>>>,
             pos |-> 1, has_predict_proba |-> TRUE]
Clf_SVC  == [name |-> "LinearSVC", classes |-> <<C_ham, C_spam>>,
             pos |-> 2, has_predict_proba |-> FALSE]

NoClf == [name |-> "-", classes |-> <<>>, pos |-> 0, has_predict_proba |-> FALSE]

\* What joblib.load(MODEL_PATH) finds: nothing (it raises), an object that
\* is not a dict, or a dict with some of the keys.
Artifacts ==
    { [exists |-> FALSE, isdict |-> FALSE, keys |-> {}, model |-> NoClf],
      [exists |-> TRUE,  isdict |-> TRUE,  keys |-> {"model", "meta"}, model |-> Clf_LR],
      [exists |-> TRUE,  isdict |-> TRUE,  keys |-> {"vectorizer"}, model |-> NoClf] }
    \cup
    { [exists |-> TRUE, isdict |-> TRUE, keys |-> {"vectorizer", "model", "meta"},
       model |-> c] : c \in {Clf_LR, Clf_Int, Clf_Tri, Clf_SVC} }

(***************************************************************************)
(* The vectorizer and the classifier.  The pipeline requires only          *)
(* transform(texts) -> one feature row per text and predict_proba(X) ->    *)
(* one probability row per feature row; the instance modelled counts the   *)
(* characters "a" and "b" and scores a row 0.55 + 0.05 a - 0.10 b.         *)
(***************************************************************************)
Features(t) == [a |-> CountChar(t, "a"), b |-> CountChar(t, "b")]

\* A transform whose rows depend on the batch they are in: every row
\* counts the other texts of the batch among its "b".
Transform_batch_dependent(texts) ==
    [i \in 1..Len(texts) |->
        [a |-> CountChar(texts[i], "a"),
         b |-> CountChar(texts[i], "b") + Len(texts) - 1]]

\* vec.transform(texts)
Transform(texts) == [i \in 1..Len(texts) |-> Features(texts[i])]

Clamp(v) == IF v < 0 THEN 0 ELSE IF v > 100 THEN 100 ELSE v

Score(x) == Clamp(55 + 5 * x.a - 10 * x.b)

\* One row of clf.predict_proba(X): a probability per class, summing to 1.
ProbaRow(clf, x) ==
    LET neg == CHOOSE j \in 1..Len(clf.classes) : j # clf.pos
                 /\ \A k \in 1..Len(clf.classes) : k # clf.pos => j <= k
    IN  [j \in 1..Len(clf.classes) |->
            IF j = clf.pos THEN Score(x)
            ELSE IF j = neg THEN 100 - Score(x)
            ELSE 0]

\* clf.predict_proba(X)
PredictProba(clf, X) == [i \in 1..Len(X) |-> ProbaRow(clf, X[i])]

\* clf.predict(X): the class of the larger decision value.
Predict(clf, X) ==
    LET neg == CHOOSE j \in 1..Len(clf.classes) : j # clf.pos
                 /\ \A k \in 1..Len(clf.classes) : k # clf.pos => j <= k
    IN  [i \in 1..Len(X) |->
            IF Score(X[i]) >= 50 THEN clf.classes[clf.pos] ELSE clf.classes[neg]]

\* SpamIdx that prefers the second of two columns to the class named
\* "spam".
SpamIdx_second_of_two_first(clf, ncols) ==
    LET spam_idx == {j \in 1..Len(clf.classes) : clf.classes[j] = C_spam}
    IN  IF ncols = 2 THEN 2
        ELSE IF spam_idx # {}
        THEN CHOOSE j \in spam_idx : \A k \in spam_idx : j <= k
        ELSE 1

\* The column of the spam class: the class named "spam", else the second of
\* two columns, else the first.
SpamIdx(clf, ncols) ==
    LET spam_idx == {j \in 1..Len(clf.classes) : clf.classes[j] = C_spam}
    IN  IF spam_idx # {}
        THEN CHOOSE j \in spam_idx : \A k \in spam_idx : j <= k
        ELSE IF ncols = 2 THEN 2 ELSE 1

\* proba[:, spam_idx]
SpamProbs(clf, X) ==
    LET proba == PredictProba(clf, X)
    IN  [i \in 1..Len(X) |-> proba[i][SpamIdx(clf, Len(clf.classes))]]

(***************************************************************************)
(* State.                                                                  *)
(***************************************************************************)
VARIABLES
    env,              \* os.environ: SYSTEM_PROFILE, SPAM_THRESHOLD, MAX_BATCH
    disk,             \* the artifact at MODEL_PATH
    SYSTEM_PROFILE,   \* module globals of api/main.py
    SPAM_THRESHOLD,
    MAX_BATCH,
    MODEL_BUNDLE,
    MODEL_META,
    MODEL_FILE_INFO,
    pc,               \* the position of _startup
    bundle,           \* _startup's local `bundle`
    req,              \* the last request handled
    resp,             \* its response
    work,             \* what its handler called while handling it
    args,             \* the arguments of an offline job (batch_predict.py)
    output_file,      \* the lines of the file at --output
    main              \* the position and the locals of batch_predict.main

vars == <<env, disk, SYSTEM_PROFILE, SPAM_THRESHOLD, MAX_BATCH, MODEL_BUNDLE,
          MODEL_META, MODEL_FILE_INFO, pc, bundle, req, resp, work,
          args, output_file, main>>

config == <<env, disk, SYSTEM_PROFILE, SPAM_THRESHOLD, MAX_BATCH>>
loaded == <<MODEL_BUNDLE, MODEL_META, MODEL_FILE_INFO, pc, bundle>>
api    == <<MODEL_BUNDLE, MODEL_META, MODEL_FILE_INFO, pc, bundle, req, resp, work>>
cli    == <<args, output_file, main>>

(***************************************************************************)
(* Threshold resolution.                                                   *)
(***************************************************************************)
\* compute_spam_threshold without its first step: the override is never read.
compute_spam_threshold_no_override(env_override, system_profile) ==
    LET profile_key == DictGet(PROFILE_ALIASES, system_profile, system_profile)
    IN  DictGet(PROFILE_THRESHOLDS, profile_key, PROFILE_THRESHOLDS[K_default])

\* compute_spam_threshold that looks the system profile up without
\* resolving an alias.
compute_spam_threshold_no_alias(env_override, system_profile) ==
    LET from_profile == DictGet(PROFILE_THRESHOLDS, system_profile,
                                PROFILE_THRESHOLDS[K_default])
    IN  IF ~IsNone(env_override) /\ ParseFloat(Val(env_override)).ok
        THEN ParseFloat(Val(env_override)).val
        ELSE from_profile

\* compute_spam_threshold(), given os.getenv("SPAM_THRESHOLD") and the
\* global SYSTEM_PROFILE.
compute_spam_threshold(env_override, system_profile) ==
    LET profile_key == DictGet(PROFILE_ALIASES, system_profile, system_profile)
        from_profile == DictGet(PROFILE_THRESHOLDS, profile_key,
                                PROFILE_THRESHOLDS[K_default])
    IN  IF ~IsNone(env_override) /\ ParseFloat(Val(env_override)).ok
        THEN ParseFloat(Val(env_override)).val
        ELSE from_profile

\* resolve_threshold that never looks at the requested profile.
resolve_threshold_ignores_profile(profile, spam_threshold) == spam_threshold

\* resolve_threshold whose miss gives the threshold of profile "default"
\* in place of the process-wide SPAM_THRESHOLD.
resolve_threshold_default_profile(profile, spam_threshold) ==
    LET key0 == Lower(Val(profile))
        key  == DictGet(PROFILE_ALIASES, key0, key0)
    IN  IF ~IsNone(profile) /\ Val(profile) # <<>> /\ key \in DOMAIN PROFILE_THRESHOLDS
        THEN PROFILE_THRESHOLDS[key]
        ELSE PROFILE_THRESHOLDS[K_default]

\* resolve_threshold without the lowercasing of the key.
resolve_threshold_case_sensitive(profile, spam_threshold) ==
    LET key == DictGet(PROFILE_ALIASES, Val(profile), Val(profile))
    IN  IF ~IsNone(profile) /\ Val(profile) # <<>> /\ key \in DOMAIN PROFILE_THRESHOLDS
        THEN PROFILE_THRESHOLDS[key]
        ELSE spam_threshold

\* resolve_threshold(profile), given the global SPAM_THRESHOLD.
resolve_threshold(profile, spam_threshold) ==
    LET key0 == Lower(Val(profile))
        key  == DictGet(PROFILE_ALIASES, key0, key0)
    IN  IF ~IsNone(profile) /\ Val(profile) # <<>> /\ key \in DOMAIN PROFILE_THRESHOLDS
        THEN PROFILE_THRESHOLDS[key]
        ELSE spam_threshold


(***************************************************************************)
(* Requests.                                                               *)
(***************************************************************************)
TextChars == {" ", "a", "b"}

\* Bodies of /predict: {"text": ...}.
PredictTexts == SeqsUpTo(TextChars, MaxTextLen)

\* Elements of the bodies of /batch: {"texts": [...]}.
BatchTexts == {<<" ">>, <<"b", " ">>}
BatchBodies == SeqsUpTo(BatchTexts, MaxBatchCfg + 1)

E_NEWSLETTER == <<"N","E","W","S","L","E","T","T","E","R">>
E_Financial  == <<"F","i","n","a","n","c","i","a","l">>

\* Values of the `profile` query parameter (None: not given).
RequestProfiles ==
    { None, Some(<<>>), Some(K_bank), Some(E_BANK), Some(K_aggressive),
      Some(A_financial), Some(A_telecom), Some(A_email_marketing),
      Some(E_NEWSLETTER), Some(E_nope) }

\* Those sent with /batch and /file-predict.
BatchProfiles == {None, Some(K_aggressive), Some(E_Financial), Some(E_nope)}
FileProfiles == {None, Some(K_bank)}

\* Values of the x-request-id request header (None: not sent).
RequestIdHeaders == {None, Some("rid-1")}

\* RequestIDMiddleware.dispatch: the header's id, or one made from the clock.
request_id(header) == IF ~IsNone(header) /\ Val(header) # "" THEN Val(header) ELSE "req_<ms>"

(***************************************************************************)
(* Startup.                                                                *)
(***************************************************************************)
\* load_bundle that asks for the classifier only.
load_bundle_model_only(artifact) ==
    IF ~artifact.exists THEN [raised |-> TRUE, obj |-> None]
    ELSE IF ~artifact.isdict \/ "model" \notin artifact.keys
    THEN [raised |-> TRUE, obj |-> None]
    ELSE [raised |-> FALSE, obj |-> Some(artifact)]

\* load_bundle(path): the loaded object, or an exception.
load_bundle(artifact) ==
    IF ~artifact.exists THEN [raised |-> TRUE, obj |-> None]
    ELSE IF ~artifact.isdict \/ "vectorizer" \notin artifact.keys
                             \/ "model" \notin artifact.keys
    THEN [raised |-> TRUE, obj |-> None]
    ELSE [raised |-> FALSE, obj |-> Some(artifact)]

\* No request is being handled.
Idle == [endpoint |-> "-"]

\* What a handler has called: the lists given to vec.transform, the calls of
\* the classifier, the calls of bytes.decode, the threshold it resolved, and
\* the phases of its job that an upload has passed.
NoWork == [vec_calls |-> <<>>, clf_calls |-> 0, decodes |-> 0, threshold |-> None,
           phases |-> <<>>]

Init ==
    /\ env \in [SYSTEM_PROFILE : EnvSystemProfiles,
                SPAM_THRESHOLD : EnvSpamThresholds,
                MAX_BATCH : EnvMaxBatch]
    /\ disk \in Artifacts
    /\ SYSTEM_PROFILE = Lower(env.SYSTEM_PROFILE)
    /\ SPAM_THRESHOLD = compute_spam_threshold(env.SPAM_THRESHOLD,
                                               Lower(env.SYSTEM_PROFILE))
    /\ MAX_BATCH = env.MAX_BATCH
    /\ MODEL_BUNDLE = None
    /\ MODEL_META = <<>>
    /\ MODEL_FILE_INFO = <<>>
    /\ pc = "start"
    /\ bundle = None
    /\ req = Idle
    /\ resp = Idle
    /\ work = NoWork
    /\ args = None
    /\ output_file = <<>>
    /\ main = None

\* _startup: load the bundle, record the file's provenance and the model's
\* metadata, and publish the bundle last.  An exception of load_bundle ends
\* the startup with the globals as they were.
Startup ==
    /\ pc = "start"
    /\ req = Idle
    /\ LET r == load_bundle(disk)
       IN  IF r.raised
           THEN /\ pc' = "failed"
                /\ UNCHANGED <<bundle, MODEL_FILE_INFO, MODEL_META, MODEL_BUNDLE>>
           ELSE /\ bundle' = r.obj
                /\ MODEL_FILE_INFO' =
                      [path |-> "models/bundle_svm.joblib", exists |-> TRUE,
                       size_bytes |-> Some(1), mtime |-> Some(1),
                       sha256 |-> Some("sha256"), load_seconds |-> 1]
                /\ MODEL_META' =
                      [vectorizer |-> "TfidfVectorizer",
                       classifier |-> Val(r.obj).model.name,
                       bundle_meta |-> IF "meta" \in Val(r.obj).keys
                                       THEN "meta" ELSE "{}"]
                /\ MODEL_BUNDLE' = r.obj
                /\ pc' = "done"
    /\ UNCHANGED <<config, req, resp, work, cli>>

(***************************************************************************)
(* Handlers.  Each is an operator from the request to the response and the *)
(* calls made while handling it.                                           *)
(***************************************************************************)
\* raise HTTPException(status_code, detail)
HTTPException(endpoint, rid, status_code, detail, w) ==
    [resp |-> [endpoint |-> endpoint, status |-> status_code,
               body |-> [detail |-> detail], request_id |-> rid],
     work |-> w]

\* A returned body, sent with status 200.
Ok(endpoint, rid, body, w) ==
    [resp |-> [endpoint |-> endpoint, status |-> 200, body |-> body,
               request_id |-> rid],
     work |-> w]

\* _unhandled_ex that answers with the text of the exception and without
\* the id of the request.
unhandled_ex_leaks(endpoint, rid, exc, w) ==
    [resp |-> [endpoint |-> endpoint, status |-> 500,
               body |-> [detail |-> exc, request_id |-> "-"],
               request_id |-> rid],
     work |-> w]

\* _unhandled_ex: the answer to an exception no handler caught.  The body is
\* fixed but for the request id; the exception itself goes to the log only.
unhandled_ex(endpoint, rid, exc, w) ==
    [resp |-> [endpoint |-> endpoint, status |-> 500,
               body |-> [detail |-> "Internal Server Error", request_id |-> rid],
               request_id |-> rid],
     work |-> w]

\* predict, line 366.
predict_label(proba_spam, threshold) ==
    IF proba_spam >= threshold THEN C_spam ELSE C_ham

\* predict without the strip of line 345.
predict_text_unstripped(payload_text) == payload_text

\* predict, line 345.
predict_text(payload_text) == Strip(payload_text)

\* predict_scored that, for a classifier without predict_proba, reports the
\* probability 0 and labels by the threshold.
predict_scored_zero_proba(r, rid, text) ==
    LET clf == Val(MODEL_BUNDLE).model
        X   == Transform(<<text>>)
        threshold == resolve_threshold(r.profile, SPAM_THRESHOLD)
        w   == [vec_calls |-> << <<text>> >>, clf_calls |-> 1, decodes |-> 0,
                threshold |-> Some(threshold), phases |-> <<>>]
        proba_spam == IF clf.has_predict_proba THEN SpamProbs(clf, X)[1] ELSE 0
    IN  Ok("predict", rid,
           [text |-> text, pred |-> predict_label(proba_spam, threshold),
            proba_spam |-> Some(proba_spam), request_id |-> rid], w)

\* predict, lines 349-377: the scoring of a validated text.
predict_scored(r, rid, text) ==
    LET clf == Val(MODEL_BUNDLE).model
        X   == Transform(<<text>>)
        threshold == resolve_threshold(r.profile, SPAM_THRESHOLD)
        w   == [vec_calls |-> << <<text>> >>, clf_calls |-> 1, decodes |-> 0,
                threshold |-> Some(threshold), phases |-> <<>>]
    IN
    IF clf.has_predict_proba
    THEN LET proba_spam == SpamProbs(clf, X)[1]
         IN  Ok("predict", rid,
                [text |-> text, pred |-> predict_label(proba_spam, threshold),
                 proba_spam |-> Some(proba_spam), request_id |-> rid], w)
    ELSE Ok("predict", rid,
            [text |-> text, pred |-> Predict(clf, X)[1],
             proba_spam |-> None, request_id |-> rid], w)

\* predict with the check of the text before the check of the bundle.
predict_validates_first(r) ==
    LET rid  == request_id(r.rid_header)
        text == predict_text(r.text)
    IN
    IF text = <<>>
    THEN HTTPException("predict", rid, 422, "Empty 'text'", NoWork)
    ELSE IF IsNone(MODEL_BUNDLE)
    THEN HTTPException("predict", rid, 503, "Model not loaded", NoWork)
    ELSE predict_scored(r, rid, text)

predict(r) ==
    LET rid == request_id(r.rid_header)
    IN
    IF IsNone(MODEL_BUNDLE)
    THEN HTTPException("predict", rid, 503, "Model not loaded", NoWork)
    ELSE
    LET text == predict_text(r.text)
    IN
    IF text = <<>>
    THEN HTTPException("predict", rid, 422, "Empty 'text'", NoWork)
    ELSE predict_scored(r, rid, text)

\* batch_label with > in place of >=.
batch_label_strict(p, threshold) ==
    IF p > threshold THEN C_spam ELSE C_ham

\* batch, line 426.
batch_label(p, threshold) ==
    IF p >= threshold THEN C_spam ELSE C_ham

\* batch_texts that drops the texts that are empty after trimming.
batch_texts_drop_empty(payload_texts) ==
    LET kept == SelectSeq(payload_texts, LAMBDA t : Strip(t) # <<>>)
    IN  [i \in 1..Len(kept) |-> Strip(kept[i])]

\* batch, line 407.
batch_texts(payload_texts) ==
    [i \in 1..Len(payload_texts) |-> Strip(payload_texts[i])]

\* batch, lines 432-435: zip(texts, preds, probs).
batch_items(texts, preds, probs) ==
    LET n == IF Len(texts) <= Len(preds) THEN Len(texts) ELSE Len(preds)
        m == IF n <= Len(probs) THEN n ELSE Len(probs)
    IN  [i \in 1..m |-> [text |-> texts[i], pred |-> preds[i],
                         proba_spam |-> probs[i]]]

\* batch_too_large with >= in place of >.
batch_too_large_at_limit(n, max_batch) == n >= max_batch

\* batch, line 401.
batch_too_large(n, max_batch) == n > max_batch

batch(r) ==
    LET rid == request_id(r.rid_header)
    IN
    IF IsNone(MODEL_BUNDLE)
    THEN HTTPException("batch", rid, 503, "Model not loaded", NoWork)
    ELSE IF r.texts = <<>>
    THEN HTTPException("batch", rid, 422, "No texts provided", NoWork)
    ELSE IF batch_too_large(Len(r.texts), MAX_BATCH)
    THEN HTTPException("batch", rid, 413, "Batch too large", NoWork)
    ELSE
    LET clf   == Val(MODEL_BUNDLE).model
        texts == batch_texts(r.texts)
        X     == Transform(texts)
        threshold == resolve_threshold(r.profile, SPAM_THRESHOLD)
        spam_probs == SpamProbs(clf, X)
        probs == IF clf.has_predict_proba
                 THEN [i \in 1..Len(X) |-> Some(spam_probs[i])]
                 ELSE [i \in 1..Len(texts) |-> None]
        preds == IF clf.has_predict_proba
                 THEN [i \in 1..Len(X) |-> batch_label(spam_probs[i], threshold)]
                 ELSE Predict(clf, X)
        items == batch_items(texts, preds, probs)
        w     == [vec_calls |-> <<texts>>, clf_calls |-> 1, decodes |-> 0,
                  threshold |-> Some(threshold), phases |-> <<>>]
    IN  Ok("batch", rid,
           [size |-> Len(items), items |-> items, request_id |-> rid], w)

\* The order of PROFILE_DEFINITIONS.items().
ProfileOrder ==
    <<K_default, K_telco, K_bank, K_marketing, K_aggressive, K_balanced,
      K_conservative>>

list_profiles(r) ==
    Ok("profiles", request_id(r.rid_header),
       [system_profile |-> SYSTEM_PROFILE,
        default_threshold |-> SPAM_THRESHOLD,
        profiles |-> [i \in 1..Len(ProfileOrder) |->
                        [key |-> ProfileOrder[i],
                         label |-> PROFILE_DEFINITIONS[ProfileOrder[i]].label,
                         threshold |-> PROFILE_DEFINITIONS[ProfileOrder[i]].threshold]]],
       NoWork)

health(r) ==
    LET ok == ~IsNone(MODEL_BUNDLE)
    IN  Ok("health", request_id(r.rid_header),
           [ok |-> ok, model_loaded |-> ok, model_file |-> MODEL_FILE_INFO,
            model_meta |-> MODEL_META,
            config |-> [system_profile |-> SYSTEM_PROFILE,
                        spam_threshold |-> SPAM_THRESHOLD,
                        max_batch |-> MAX_BATCH]],
           NoWork)

(***************************************************************************)
(* /file-predict.  An uploaded file is a filename and a content.  The      *)
(* content is given by what its readers make of it: whether the bytes are  *)
(* valid UTF-8, whether they are valid cp1252, whether they are an Excel   *)
(* workbook, and the lines (of the text, or of the first sheet), each line *)
(* split at its commas (cells).  A DataFrame is its column names, in       *)
(* order, and the values of each column.                                   *)
(***************************************************************************)
\* batch_predict.py, line 8.
FALLBACK_ENCODINGS == <<"utf-8", "utf-8-sig", "cp1252", "latin-1", "ISO-8859-1">>

\* bytes.decode(enc) does not raise: latin-1 (ISO-8859-1) maps every byte.
Decodes(content, enc) ==
    IF enc \in {"utf-8", "utf-8-sig"} THEN content.utf8
    ELSE IF enc = "cp1252" THEN content.cp1252
    ELSE TRUE

T_text       == <<"t","e","x","t">>
T_Text       == <<"T","e","x","t">>
N_pred       == <<"p","r","e","d">>
N_proba_spam == <<"p","r","o","b","a","_","s","p","a","m">>
NaN          == <<"NaN">>

\* Path(name).suffix and Path(name).stem of a bare file name.
Suffix(name) ==
    LET d == RFind(name, ".")
    IN  IF 1 < d /\ d < Len(name) THEN SubSeq(name, d, Len(name)) ELSE <<>>

Stem(name) ==
    LET d == RFind(name, ".")
    IN  IF 1 < d /\ d < Len(name) THEN SubSeq(name, 1, d - 1) ELSE name

\* sep.join(fields)
RECURSIVE Join(_, _)
Join(fields, sep) ==
    IF fields = <<>> THEN <<>>
    ELSE IF Len(fields) = 1 THEN fields[1]
    ELSE fields[1] \o sep \o Join(Tail(fields), sep)

LineText(line) == Join(line, <<",">>)

NonBlank(text) == Strip(text) # <<>>
NonBlankLine(line) == NonBlank(LineText(line))

\* content.decode("utf-8").splitlines()
DecodedLines(content) == [i \in 1..Len(content.lines) |-> LineText(content.lines[i])]

\* StrippedLines without its filter: a blank line stays, as an empty text.
StrippedLines_keep_blank(lines) == [i \in 1..Len(lines) |-> Strip(lines[i])]

\* [ln.strip() for ln in lines if ln.strip()]
StrippedLines(lines) ==
    LET kept == SelectSeq(lines, NonBlank)
    IN  [i \in 1..Len(kept) |-> Strip(kept[i])]

\* TextFrame that names its only column "message".
TextFrame_message_column(lines) ==
    [columns |-> << <<"m","e","s","s","a","g","e">> >>,
     data |-> (<<"m","e","s","s","a","g","e">> :> lines)]

\* pd.DataFrame({"text": lines})
TextFrame(lines) == [columns |-> <<T_text>>, data |-> (T_text :> lines)]

EmptyFrame == [columns |-> <<>>, data |-> <<>>]

Max(a, b) == IF a >= b THEN a ELSE b

\* The cell of column j (of `width` columns after `lead` index columns) in a
\* parsed line: a missing or empty field is NaN.
Cell(line, j) == IF j > Len(line) \/ line[j] = <<>> THEN NaN ELSE line[j]

\* pd.read_csv(StringIO(text)): blank lines are skipped, the first line
\* names the columns, a first data line longer than the header gives the
\* leading fields to the index, a shorter line is padded with NaN, and a
\* later line longer than the table raises ParserError; no line at all
\* raises EmptyDataError.
read_csv(content) ==
    LET rows   == SelectSeq(content.lines, NonBlankLine)
        header == rows[1]
        body   == Tail(rows)
        width  == IF body = <<>> THEN Len(header)
                  ELSE Max(Len(header), Len(body[1]))
        lead   == width - Len(header)
    IN  IF rows = <<>> THEN [raised |-> TRUE, df |-> EmptyFrame]
        ELSE IF \E i \in 2..Len(body) : Len(body[i]) > width
        THEN [raised |-> TRUE, df |-> EmptyFrame]
        ELSE [raised |-> FALSE,
              df |-> [columns |-> header,
                      data |-> [c \in {header[j] : j \in 1..Len(header)} |->
                                  LET j == CHOOSE k \in 1..Len(header) : header[k] = c
                                  IN  [i \in 1..Len(body) |-> Cell(body[i], lead + j)]]]]

\* pd.read_excel(BytesIO(content)): bytes that are no workbook raise; the
\* first row of the sheet names the columns.
read_excel(content) ==
    IF ~content.workbook THEN [raised |-> TRUE, df |-> EmptyFrame]
    ELSE IF content.lines = <<>> THEN [raised |-> FALSE, df |-> EmptyFrame]
    ELSE LET header == content.lines[1]
             body   == Tail(content.lines)
         IN  [raised |-> FALSE,
              df |-> [columns |-> header,
                      data |-> [c \in {header[j] : j \in 1..Len(header)} |->
                                  LET j == CHOOSE k \in 1..Len(header) : header[k] = c
                                  IN  [i \in 1..Len(body) |-> Cell(body[i], j)]]]]

\* str(exc) of the exceptions the readers raise.
UnicodeDecodeError == "'utf-8' codec can't decode byte 0xff in position 0: invalid start byte"
BadWorkbook == "File is not a zip file"

\* read_upload that reads a file of any extension as line-oriented text.
read_upload_any_extension(ext, content) ==
    IF content.utf8
    THEN [status |-> 200,
          df |-> TextFrame(StrippedLines(DecodedLines(content))),
          decodes |-> 1, exc |-> ""]
    ELSE [status |-> 400, df |-> EmptyFrame, decodes |-> 1, exc |-> UnicodeDecodeError]

\* file_predict, lines 477-510: the DataFrame read, or the status of the
\* HTTPException raised and the text of the exception it was made from,
\* with the number of decode calls made.
read_upload(ext, content) ==
    IF ext = <<".","c","s","v">>
    THEN IF content.utf8 /\ ~read_csv(content).raised
         THEN [status |-> 200, df |-> read_csv(content).df, decodes |-> 1, exc |-> ""]
         ELSE IF content.utf8
         THEN [status |-> 200,
               df |-> TextFrame(StrippedLines(DecodedLines(content))),
               decodes |-> 2, exc |-> ""]
         ELSE [status |-> 400, df |-> EmptyFrame, decodes |-> 2,
               exc |-> UnicodeDecodeError]
    ELSE IF ext \in {<<".","x","l","s","x">>, <<".","x","l","s">>}
    THEN IF read_excel(content).raised
         THEN [status |-> 400, df |-> EmptyFrame, decodes |-> 0, exc |-> BadWorkbook]
         ELSE [status |-> 200, df |-> read_excel(content).df, decodes |-> 0, exc |-> ""]
    ELSE IF ext = <<".","t","x","t">>
    THEN IF content.utf8
         THEN [status |-> 200,
               df |-> TextFrame(StrippedLines(DecodedLines(content))),
               decodes |-> 1, exc |-> ""]
         ELSE [status |-> 400, df |-> EmptyFrame, decodes |-> 1,
               exc |-> UnicodeDecodeError]
    ELSE [status |-> 415, df |-> EmptyFrame, decodes |-> 0, exc |-> ""]

\* InColumns that compares the names without regard to letter case.
InColumns_ignoring_case(df, name) ==
    \E j \in 1..Len(df.columns) : Lower(df.columns[j]) = Lower(name)

\* name in df.columns
InColumns(df, name) == \E j \in 1..Len(df.columns) : df.columns[j] = name

\* df[name] = values: an existing column is replaced in place, a new one is
\* appended.
SetColumn(df, name, values) ==
    IF InColumns(df, name)
    THEN [df EXCEPT !.data[name] = values]
    ELSE [columns |-> Append(df.columns, name),
          data |-> [c \in DOMAIN df.data \cup {name} |->
                      IF c = name THEN values ELSE df.data[c]]]

\* df["text"].astype(str).tolist()
AsStr(cell) == IF cell = NaN THEN <<"n","a","n">> ELSE cell
TextColumn(df) == [i \in 1..Len(df.data[T_text]) |-> AsStr(df.data[T_text][i])]

\* file_predict, line 541.
file_label(p, threshold) ==
    IF p >= threshold THEN C_spam ELSE C_ham

\* out_name that keeps the uploaded name whole, extension included.
out_name_keeps_extension(original_name) ==
    <<"p","r","e","d","i","c","t","i","o","n","_">> \o original_name
        \o <<".","c","s","v">>

\* file_predict, line 554.
out_name(original_name) ==
    <<"p","r","e","d","i","c","t","i","o","n","_">> \o Stem(original_name)
        \o <<".","c","s","v">>

\* file_predict, lines 521-564: the scoring of the table read and the
\* answer.
file_scored(r, rid, df, w) ==
    LET clf   == Val(MODEL_BUNDLE).model
        texts == TextColumn(df)
        X     == Transform(texts)
        threshold == resolve_threshold(r.profile, SPAM_THRESHOLD)
        spam_probs == SpamProbs(clf, X)
        preds == IF clf.has_predict_proba
                 THEN [i \in 1..Len(X) |-> file_label(spam_probs[i], threshold)]
                 ELSE Predict(clf, X)
        df1   == SetColumn(df, N_pred, preds)
        df2   == IF clf.has_predict_proba
                 THEN SetColumn(df1, N_proba_spam, spam_probs)
                 ELSE df1
    IN
    IF texts = <<>>
    THEN \* vec.transform of no rows raises ValueError: _unhandled_ex answers.
         unhandled_ex("file-predict", rid, "ValueError: Found array with 0 sample(s)",
                      [w EXCEPT !.vec_calls = <<texts>>])
    ELSE Ok("file-predict", rid,
            [filename |-> out_name(r.filename), media_type |-> "text/csv",
             table |-> df2],
            [w EXCEPT !.vec_calls = <<texts>>, !.clf_calls = 1,
                      !.threshold = Some(threshold),
                      !.phases = @ \o <<"chunk_scored", "complete">>])

\* The phases a job has passed once its file has been read with this status.
read_phases(status) ==
    IF status = 415 THEN <<>>
    ELSE IF status = 400 THEN <<"format_detected">>
    ELSE <<"format_detected", "decoded">>

\* file_predict that goes on to the scoring without looking for the "text"
\* column.
file_predict_no_column_check(r) ==
    LET rid == request_id(r.rid_header)
    IN
    IF IsNone(MODEL_BUNDLE)
    THEN HTTPException("file-predict", rid, 503, "Model not loaded", NoWork)
    ELSE IF r.filename = <<>>
    THEN HTTPException("file-predict", rid, 400, "Uploaded file must have a name", NoWork)
    ELSE
    LET ext  == Lower(Suffix(r.filename))
        read == read_upload(ext, r.content)
        w0   == [NoWork EXCEPT !.decodes = read.decodes,
                               !.phases = read_phases(read.status)]
    IN
    IF read.status = 415
    THEN HTTPException("file-predict", rid, 415, "Unsupported file type", w0)
    ELSE IF read.status = 400
    THEN HTTPException("file-predict", rid, 400,
                       <<"Could not read file: ", read.exc>>, w0)
    ELSE IF T_text \notin DOMAIN read.df.data
    THEN unhandled_ex("file-predict", rid, "KeyError: 'text'", w0)
    ELSE file_scored(r, rid, read.df, w0)

file_predict(r) ==
    LET rid == request_id(r.rid_header)
    IN
    IF IsNone(MODEL_BUNDLE)
    THEN HTTPException("file-predict", rid, 503, "Model not loaded", NoWork)
    ELSE IF r.filename = <<>>
    THEN HTTPException("file-predict", rid, 400, "Uploaded file must have a name", NoWork)
    ELSE
    LET ext  == Lower(Suffix(r.filename))
        read == read_upload(ext, r.content)
        w0   == [NoWork EXCEPT !.decodes = read.decodes,
                               !.phases = read_phases(read.status)]
    IN
    IF read.status = 415
    THEN HTTPException("file-predict", rid, 415, "Unsupported file type", w0)
    ELSE IF read.status = 400
    THEN \* detail = f"Could not read file: {exc}"
         HTTPException("file-predict", rid, 400,
                       <<"Could not read file: ", read.exc>>, w0)
    ELSE IF ~InColumns(read.df, T_text)
    THEN HTTPException("file-predict", rid, 422, "Input must contain a 'text' column", w0)
    ELSE IF T_text \notin DOMAIN read.df.data
    THEN \* df["text"] of a frame without that column raises KeyError.
         unhandled_ex("file-predict", rid, "KeyError: 'text'", w0)
    ELSE file_scored(r, rid, read.df,
                     [w0 EXCEPT !.phases = Append(@, "column_resolved")])

\* Uploaded file names.
FileNames ==
    { <<>>, <<"m",".","C","s","v">>, <<"m",".","n",".","t","x","t">>,
      <<"m",".","x","l","s","x">>, <<"m",".","p","d","f">>,
      <<".","c","s","v">> }

\* Uploaded contents.
FileContents ==
    { [utf8 |-> TRUE, cp1252 |-> TRUE, workbook |-> FALSE, lines |-> <<>>],
      [utf8 |-> TRUE, cp1252 |-> TRUE, workbook |-> FALSE,
       lines |-> << <<T_text>>, <<<<"a">>>>, <<<<" ">>>>, <<<<"b">>, <<" ", "a">>>>,
                    <<<<"b">>>> >>],
      [utf8 |-> TRUE, cp1252 |-> TRUE, workbook |-> FALSE,
       lines |-> << <<N_pred, T_text>>, <<<<"x">>, <<"a">>>>, <<<<"y">>>> >>],
      [utf8 |-> TRUE, cp1252 |-> TRUE, workbook |-> FALSE,
       lines |-> << <<T_Text>>, <<<<"a">>>> >>],
      [utf8 |-> FALSE, cp1252 |-> TRUE, workbook |-> FALSE,
       lines |-> << <<T_text>>, <<<<"a">>>> >>],
      [utf8 |-> FALSE, cp1252 |-> FALSE, workbook |-> TRUE,
       lines |-> << <<T_text>>, <<<<"a">>>>, <<<<"b">>>> >>] }

(***************************************************************************)
(* Actions.  One request is followed from its arrival to its response:     *)
(* its handler runs in one step (a handler only reads the globals), and    *)
(* Respond hands the response to the client.  A response already computed  *)
(* does not change when the startup runs, so the startup is taken between  *)
(* requests.  /predict and /batch are sent without an x-request-id header. *)
(***************************************************************************)
\* Handle whose handler drops the bundle it has used.
Handle_drops_bundle(r, out) ==
    /\ req = Idle
    /\ req' = r
    /\ resp' = out.resp
    /\ work' = out.work
    /\ MODEL_BUNDLE' = IF out.resp.status = 200 THEN None ELSE MODEL_BUNDLE
    /\ UNCHANGED <<config, MODEL_META, MODEL_FILE_INFO, pc, bundle, cli>>

Handle(r, out) ==
    /\ req = Idle
    /\ req' = r
    /\ resp' = out.resp
    /\ work' = out.work
    /\ UNCHANGED <<config, loaded, cli>>

Health ==
    \E h \in RequestIdHeaders :
        LET r == [endpoint |-> "health", rid_header |-> h]
        IN  Handle(r, health(r))

ListProfiles ==
    \E h \in RequestIdHeaders :
        LET r == [endpoint |-> "profiles", rid_header |-> h]
        IN  Handle(r, list_profiles(r))

PredictReq ==
    \E p \in RequestProfiles, t \in PredictTexts :
        LET r == [endpoint |-> "predict", rid_header |-> None, profile |-> p,
                  text |-> t]
        IN  Handle(r, predict(r))

BatchReq ==
    \E p \in BatchProfiles, ts \in BatchBodies :
        LET r == [endpoint |-> "batch", rid_header |-> None, profile |-> p,
                  texts |-> ts]
        IN  Handle(r, batch(r))

FilePredictReq ==
    \E h \in RequestIdHeaders, p \in FileProfiles, n \in FileNames,
       c \in FileContents :
        LET r == [endpoint |-> "file-predict", rid_header |-> h, profile |-> p,
                  filename |-> n, content |-> c]
        IN  Handle(r, file_predict(r))

Respond ==
    /\ req # Idle
    /\ req' = Idle
    /\ resp' = Idle
    /\ work' = NoWork
    /\ UNCHANGED <<config, loaded, cli>>

Next ==
    \/ Startup
    \/ Health
    \/ ListProfiles
    \/ PredictReq
    \/ BatchReq
    \/ FilePredictReq
    \/ Respond

Spec == Init /\ [][Next]_vars

(***************************************************************************)
(* The offline job, src/batch_predict.py: main scores the file at --input  *)
(* chunk by chunk and appends each scored chunk to the file at --output.   *)
(***************************************************************************)
\* The largest --chunksize of a job.
MaxChunk == 2

T_body == <<"b","o","d","y">>
T_Body == <<"B","o","d","y">>
T_sms  == <<"s","m","s">>
T_id   == <<"i","d">>
T_msg  == <<"m","s","g">>
N_pred_thresholded ==
    <<"p","r","e","d","_","t","h","r","e","s","h","o","l","d","e","d">>

\* np.nan in a column of floats: no comparison with it holds.
nan == -1

\* Classifiers of an offline job besides those of the API's artifacts: one
\* whose first class is "spam", and one with neither predict_proba nor
\* decision_function.
Clf_SpamFirst == [name |-> "MultinomialNB", classes |-> <<C_spam, C_ham>>,
                  pos |-> 1, has_predict_proba |-> TRUE]
Clf_NC        == [name |-> "NearestCentroid", classes |-> <<C_ham, C_spam>>,
                  pos |-> 2, has_predict_proba |-> FALSE]

\* What joblib.load(--model) finds.
JobModels ==
    Artifacts \cup
    { [exists |-> TRUE, isdict |-> TRUE, keys |-> {"vectorizer", "model", "meta"},
       model |-> c] : c \in {Clf_SpamFirst, Clf_NC} }

\* The files at --input: whether the file is there, which encodings decode
\* the bytes that opening the reader reads, the data row (0: none) that holds
\* a byte UTF-8 cannot decode beyond those bytes, and the header and the
\* data rows, each the list of its fields.
JobInputs ==
    { [exists |-> FALSE, utf8 |-> TRUE, cp1252 |-> TRUE, late_bad |-> 0,
       lines |-> <<>>],
      [exists |-> TRUE, utf8 |-> TRUE, cp1252 |-> TRUE, late_bad |-> 0,
       lines |-> << <<T_text>>, <<<<"a">>>>, <<<<"b">>>>, <<<<"a","b">>>> >>],
      [exists |-> TRUE, utf8 |-> TRUE, cp1252 |-> TRUE, late_bad |-> 0,
       lines |-> << <<T_id, T_Body>>, <<<<"1">>, <<"a">>>>, <<<<"2">>, <<"b">>>> >>],
      [exists |-> TRUE, utf8 |-> TRUE, cp1252 |-> TRUE, late_bad |-> 0,
       lines |-> << <<T_id, T_msg>>, <<<<"1">>, <<"b">>>>, <<<<"2">>>>,
                    <<<<"3">>, <<"a">>>> >>],
      [exists |-> TRUE, utf8 |-> FALSE, cp1252 |-> TRUE, late_bad |-> 0,
       lines |-> << <<T_text>>, <<<<"a">>>>, <<<<"b">>>> >>],
      [exists |-> TRUE, utf8 |-> TRUE, cp1252 |-> TRUE, late_bad |-> 3,
       lines |-> << <<T_text>>, <<<<"a">>>>, <<<<"b">>>>, <<<<"a">>>> >>],
      [exists |-> TRUE, utf8 |-> TRUE, cp1252 |-> TRUE, late_bad |-> 0,
       lines |-> << <<T_id>>, <<<<"1">>>>, <<<<"2">>>> >>],
      [exists |-> TRUE, utf8 |-> TRUE, cp1252 |-> TRUE, late_bad |-> 0,
       lines |-> << <<T_text>>, <<<<"a">>>>, <<<<"b">>>>,
                    <<<<"a">>, <<"b">>>> >>] }

\* The values of --text-col, --chunksize and --threshold.
JobTextCols   == {None, Some(T_text), Some(T_sms)}
JobChunkSizes == 1..MaxChunk
JobThresholds == {None, Some(50)}

\* What the file at --output holds before the job.
OldOutput == << [header |-> TRUE, fields |-> <<T_text>>] >>

\* The data rows of the input.
InputRows(input) == Tail(input.lines)

Min(a, b) == IF a <= b THEN a ELSE b

\* pd.api.types.is_string_dtype(df[c]): the column holds a value that is
\* not a number.
is_string_dtype(df, c) ==
    \E i \in 1..Len(df.data[c]) :
        /\ df.data[c][i] # NaN
        /\ \E k \in 1..Len(df.data[c][i]) : ~IsDigit(df.data[c][i][k])

\* _detect_text_col, lines 10-22.
detect_text_col(df, preferred) ==
    LET cols_lower(k) == {j \in 1..Len(df.columns) : Lower(df.columns[j]) = k}
        last(S)  == CHOOSE j \in S : \A m \in S : m <= j
        first(S) == CHOOSE j \in S : \A m \in S : j <= m
        names    == <<T_text, <<"m","e","s","s","a","g","e">>, T_sms,
                      <<"c","o","n","t","e","n","t">>, T_body>>
        known    == {k \in 1..Len(names) : cols_lower(names[k]) # {}}
        strings  == {j \in 1..Len(df.columns) : is_string_dtype(df, df.columns[j])}
    IN  IF ~IsNone(preferred) /\ Val(preferred) # <<>> /\ InColumns(df, Val(preferred))
        THEN [raised |-> FALSE, col |-> Val(preferred)]
        ELSE IF known # {}
        THEN [raised |-> FALSE,
              col |-> df.columns[last(cols_lower(names[first(known)]))]]
        ELSE IF strings # {}
        THEN [raised |-> FALSE, col |-> df.columns[first(strings)]]
        ELSE [raised |-> TRUE, col |-> <<>>]

\* _iter_csv, lines 24-31: the reader is opened with the first encoding
\* under which pd.read_csv opens it; a file that is missing or empty opens
\* under none, and the last error is raised.
iter_csv(input) ==
    LET opens == {k \in 1..Len(FALLBACK_ENCODINGS) :
                     /\ input.exists /\ input.lines # <<>>
                     /\ Decodes(input, FALLBACK_ENCODINGS[k])}
    IN  IF opens = {}
        THEN [raised |-> TRUE, enc |-> "-"]
        ELSE [raised |-> FALSE,
              enc |-> FALLBACK_ENCODINGS[CHOOSE k \in opens : \A m \in opens : k <= m]]

\* The reader's next chunk, lines 54: the next `chunksize` data rows as a
\* table.  A row that the reader's encoding cannot decode raises
\* UnicodeDecodeError and a row with more fields than the header raises
\* ParserError, when the reader comes to it.
next_chunk(input, enc, pos, chunksize) ==
    LET rows   == InputRows(input)
        header == input.lines[1]
        last   == Min(pos + chunksize, Len(rows))
        body   == SubSeq(rows, pos + 1, last)
    IN  IF /\ enc \in {"utf-8", "utf-8-sig"}
           /\ pos < input.late_bad /\ input.late_bad <= last
        THEN [raised |-> TRUE, exc |-> "UnicodeDecodeError", df |-> EmptyFrame]
        ELSE IF \E i \in 1..Len(body) : Len(body[i]) > Len(header)
        THEN [raised |-> TRUE, exc |-> "ParserError", df |-> EmptyFrame]
        ELSE [raised |-> FALSE, exc |-> "-",
              df |-> [columns |-> header,
                      data |-> [c \in {header[j] : j \in 1..Len(header)} |->
                                  LET j == CHOOSE k \in 1..Len(header) : header[k] = c
                                  IN  [i \in 1..Len(body) |-> Cell(body[i], j)]]]]

\* hasattr(model, "decision_function")
has_decision_function(clf) == clf.name \in {"LinearSVC", "LogisticRegression"}

\* model.decision_function(X), the signed distance from the boundary, and
\* 1 / (1 + exp(-d)), which is 0.5 at the boundary and grows with d.
DecisionFunction(clf, X) == [i \in 1..Len(X) |-> Score(X[i]) - 50]
Sigmoid(d) == Clamp(50 + d)

\* main, lines 65-66.
main_spam_idx(model, ncols) ==
    LET named == {j \in 1..Len(model.classes) : model.classes[j] = C_spam}
    IN  IF named # {}
        THEN CHOOSE j \in named : \A k \in named : j <= k
        ELSE IF ncols = 2 THEN 2 ELSE 1

\* main, lines 63-76: the spam probability of each row.
main_proba_spam(model, X) ==
    IF model.has_predict_proba
    THEN LET proba == PredictProba(model, X)
         IN  [i \in 1..Len(X) |->
                 proba[i][main_spam_idx(model, Len(model.classes))]]
    ELSE IF has_decision_function(model)
    THEN LET dfun == DecisionFunction(model, X)
         IN  [i \in 1..Len(X) |-> Sigmoid(dfun[i])]
    ELSE [i \in 1..Len(X) |-> nan]

\* main, lines 57-84: the scored copy of a chunk.
out_chunk(model, chunk, tcol, threshold) ==
    LET texts == [i \in 1..Len(chunk.data[tcol]) |-> AsStr(chunk.data[tcol][i])]
        X     == Transform(texts)
        pred  == Predict(model, X)
        proba_spam == main_proba_spam(model, X)
        df1   == SetColumn(chunk, N_pred, pred)
        df2   == SetColumn(df1, N_proba_spam, proba_spam)
    IN  IF IsNone(threshold) THEN df2
        ELSE SetColumn(df2, N_pred_thresholded,
                       [i \in 1..Len(X) |->
                           IF df2.data[N_proba_spam][i] # nan
                              /\ df2.data[N_proba_spam][i] >= Val(threshold)
                           THEN C_spam ELSE C_ham])

\* The lines df.to_csv(header=..., index=False) writes.
HeaderLine(df) == [header |-> TRUE, fields |-> df.columns]
RowLines(df) ==
    LET n == IF df.columns = <<>> THEN 0 ELSE Len(df.data[df.columns[1]])
    IN  [i \in 1..n |->
            [header |-> FALSE,
             fields |-> [j \in 1..Len(df.columns) |-> df.data[df.columns[j]][i]]]]
to_csv(df, header) ==
    IF header THEN <<HeaderLine(df)>> \o RowLines(df) ELSE RowLines(df)

\* _write_chunk that writes the header with every chunk.
write_chunk_always_header(df, wrote_header) == to_csv(df, TRUE)

\* _write_chunk, lines 33-35: what it appends to the output.
write_chunk(df, wrote_header) == to_csv(df, ~wrote_header)

NoLocals ==
    [pc |-> "load", model |-> NoClf, wrote_header |-> FALSE, enc |-> "-",
     pos |-> 0, i |-> 0, tcol |-> <<>>, chunk |-> EmptyFrame,
     out_chunk |-> EmptyFrame, pending |-> <<>>, vec_calls |-> <<>>,
     at |-> "-", exc |-> "-"]

\* A job is started beside an API process that has started with the same
\* artifact and the default environment.
InitBatch ==
    /\ args \in [model : JobModels, input : JobInputs, text_col : JobTextCols,
                 chunksize : JobChunkSizes, threshold : JobThresholds]
    /\ output_file \in {<<>>, OldOutput}
    /\ main = NoLocals
    /\ env = [SYSTEM_PROFILE |-> K_default, SPAM_THRESHOLD |-> None,
              MAX_BATCH |-> MaxBatchCfg]
    /\ disk = args.model
    /\ SYSTEM_PROFILE = Lower(env.SYSTEM_PROFILE)
    /\ SPAM_THRESHOLD = compute_spam_threshold(env.SPAM_THRESHOLD,
                                               Lower(env.SYSTEM_PROFILE))
    /\ MAX_BATCH = env.MAX_BATCH
    /\ LET r == load_bundle(disk)
       IN  /\ MODEL_BUNDLE = IF r.raised THEN None ELSE r.obj
           /\ bundle = MODEL_BUNDLE
           /\ pc = IF r.raised THEN "failed" ELSE "done"
           /\ MODEL_FILE_INFO =
                 IF r.raised THEN <<>>
                 ELSE [path |-> "models/bundle_svm.joblib", exists |-> TRUE,
                       size_bytes |-> Some(1), mtime |-> Some(1),
                       sha256 |-> Some("sha256"), load_seconds |-> 1]
           /\ MODEL_META =
                 IF r.raised THEN <<>>
                 ELSE [vectorizer |-> "TfidfVectorizer",
                       classifier |-> Val(r.obj).model.name,
                       bundle_meta |-> IF "meta" \in Val(r.obj).keys
                                       THEN "meta" ELSE "{}"]
    /\ req = Idle
    /\ resp = Idle
    /\ work = NoWork

\* An exception leaves main where it stands.
Raise(exc) == [main EXCEPT !.pc = "failed", !.at = main.pc, !.exc = exc]

\* main, lines 40-44: load the bundle.
LoadModel ==
    /\ main.pc = "load"
    /\ main' =
          IF ~args.model.exists
          THEN Raise("FileNotFoundError")
          ELSE IF ~args.model.isdict \/ ~({"vectorizer", "model"} \subseteq args.model.keys)
          THEN Raise("ValueError: Model must be a dict with keys: vectorizer, model")
          ELSE [main EXCEPT !.pc = "prepare", !.model = args.model.model]
    /\ UNCHANGED <<config, api, args, output_file>>

\* main, lines 47-50: truncate the output.
PrepareOutput ==
    /\ main.pc = "prepare"
    /\ output_file' = <<>>
    /\ main' = [main EXCEPT !.pc = "open", !.wrote_header = FALSE]
    /\ UNCHANGED <<config, api, args>>

\* main, line 53: open the reader.
OpenReader ==
    /\ main.pc = "open"
    /\ LET r == iter_csv(args.input)
       IN  main' = IF r.raised THEN Raise("last_err")
                   ELSE [main EXCEPT !.pc = "read", !.enc = r.enc, !.pos = 0]
    /\ UNCHANGED <<config, api, args, output_file>>

\* main, line 54: the reader yields its next chunk, or is exhausted and main
\* returns.
ReadChunk ==
    /\ main.pc = "read"
    /\ LET n == Len(InputRows(args.input))
           r == next_chunk(args.input, main.enc, main.pos, args.chunksize)
       IN  main' =
              IF main.pos >= n THEN [main EXCEPT !.pc = "done"]
              ELSE IF r.raised THEN Raise(r.exc)
              ELSE [main EXCEPT !.pc = "score", !.chunk = r.df,
                                !.pos = Min(main.pos + args.chunksize, n)]
    /\ UNCHANGED <<config, api, args, output_file>>

\* main, lines 55-84 and the call of line 86: the text column is detected on
\* the first chunk, the chunk is scored, and its scored copy is handed to
\* _write_chunk.
ScoreChunk ==
    /\ main.pc = "score"
    /\ LET d    == IF main.i = 0 THEN detect_text_col(main.chunk, args.text_col)
                   ELSE [raised |-> FALSE, col |-> main.tcol]
           tcol == d.col
           oc   == out_chunk(main.model, main.chunk, tcol, args.threshold)
       IN  main' =
              IF d.raised
              THEN Raise("ValueError: Could not detect a text column")
              ELSE IF ~InColumns(main.chunk, tcol)
              THEN Raise("KeyError")
              ELSE [main EXCEPT
                      !.pc = "write", !.tcol = tcol,
                      !.vec_calls = Append(@,
                          [k \in 1..Len(main.chunk.data[tcol]) |->
                              AsStr(main.chunk.data[tcol][k])]),
                      !.out_chunk = oc,
                      !.pending = write_chunk(oc, main.wrote_header)]
    /\ UNCHANGED <<config, api, args, output_file>>

\* df.to_csv(out_path, mode="a"), line 34: the lines of the chunk reach the
\* file one after another; with the last one _write_chunk returns True and
\* the chunk is complete.
WriteLine ==
    /\ main.pc = "write"
    /\ main.pending # <<>>
    /\ output_file' = Append(output_file, Head(main.pending))
    /\ main' = IF Len(main.pending) = 1
               THEN [main EXCEPT !.pending = <<>>, !.wrote_header = TRUE,
                                 !.i = @ + 1, !.pc = "read"]
               ELSE [main EXCEPT !.pending = Tail(@)]
    /\ UNCHANGED <<config, api, args>>

\* The process is interrupted (KeyboardInterrupt, a signal) where it stands.
Cancel ==
    /\ main.pc \notin {"done", "failed", "cancelled"}
    /\ main' = [main EXCEPT !.pc = "cancelled", !.at = main.pc]
    /\ UNCHANGED <<config, api, args, output_file>>

NextBatch ==
    \/ LoadModel
    \/ PrepareOutput
    \/ OpenReader
    \/ ReadChunk
    \/ ScoreChunk
    \/ WriteLine
    \/ Cancel

SpecBatch == InitBatch /\ [][NextBatch]_vars

(***************************************************************************)
(* Vocabulary of the properties.                                           *)
(***************************************************************************)
ScoringEndpoints == {"predict", "batch", "file-predict"}

\* A scoring request has been handled and its response is at hand.
Scoring == req # Idle /\ req.endpoint \in ScoringEndpoints

\* The handler of the request at hand saw the bundle loaded.  (The startup
\* runs between requests, so the bundle is as the handler saw it.)
BundleLoaded == ~IsNone(MODEL_BUNDLE)

\* The request at hand was scored with a threshold.
Thresholded == Scoring /\ ~IsNone(work.threshold)

\* SPAM_THRESHOLD is set in the environment to a value float() accepts.
OverrideValid ==
    ~IsNone(env.SPAM_THRESHOLD) /\ ParseFloat(Val(env.SPAM_THRESHOLD)).ok

OverrideValue == ParseFloat(Val(env.SPAM_THRESHOLD)).val

\* The canonical key a requested profile names: lowercased, then through
\* the alias map.
CanonicalKey(profile) ==
    LET k == Lower(Val(profile))
    IN  IF k \in AliasKeys THEN PROFILE_ALIASES[k] ELSE k

\* The requested profile names a registered profile (directly or by alias).
NamesProfile(profile) ==
    ~IsNone(profile) /\ CanonicalKey(profile) \in ProfileKeys

\* The scored items of the response at hand: label, spam probability and
\* position, whatever the endpoint.
ScoredItems ==
    IF ~Scoring \/ resp.status # 200 THEN {}
    ELSE IF req.endpoint = "predict"
    THEN {[i |-> 1, pred |-> resp.body.pred, proba_spam |-> resp.body.proba_spam]}
    ELSE IF req.endpoint = "batch"
    THEN {[i |-> i, pred |-> resp.body.items[i].pred,
           proba_spam |-> resp.body.items[i].proba_spam] :
             i \in 1..Len(resp.body.items)}
    ELSE {[i |-> i, pred |-> resp.body.table.data[N_pred][i],
           proba_spam |-> IF InColumns(resp.body.table, N_proba_spam)
                          THEN Some(resp.body.table.data[N_proba_spam][i])
                          ELSE None] :
             i \in 1..Len(resp.body.table.data[N_pred])}

RecognizedExtensions ==
    {<<".","c","s","v">>, <<".","x","l","s","x">>, <<".","x","l","s">>,
     <<".","t","x","t">>}

(***************************************************************************)
(* C1.  As stated: with a valid SPAM_THRESHOLD override configured, the    *)
(* threshold applied to a /predict, /batch or /file-predict request equals *)
(* the override whatever profile the request names.  The code does not do  *)
(* this: a request that names a registered profile or alias is decided     *)
(* with that profile's threshold.                                          *)
(***************************************************************************)
C1_OverrideAlwaysWins ==
    (OverrideValid /\ Thresholded) => Val(work.threshold) = OverrideValue

\* C1, amended: with a valid override configured, the threshold applied to
\* a scoring request equals the override exactly when the request's profile
\* is absent, empty or names no registered profile (after lowercasing and
\* alias resolution); a request that names a registered profile or a known
\* alias is decided with that profile's threshold.
C1_OverrideUnlessProfileNamed ==
    (OverrideValid /\ Thresholded) =>
        Val(work.threshold) =
            IF NamesProfile(req.profile)
            THEN PROFILE_DEFINITIONS[CanonicalKey(req.profile)].threshold
            ELSE OverrideValue

\* C1, witness: an override of 0.3 decides a request that names an unknown
\* profile, under a system profile whose own threshold is 0.65.
C1_Witness ==
    /\ OverrideValid /\ Thresholded
    /\ req.profile = Some(E_nope)
    /\ SYSTEM_PROFILE = A_financial
    /\ Val(work.threshold) = 30

(***************************************************************************)
(* C2.  A message whose spam probability is 0.60 is labelled "ham" under   *)
(* profile "bank" (0.65) and "spam" under profile "aggressive" (0.45); a   *)
(* request that names a registered profile is decided with that profile's  *)
(* threshold.                                                              *)
(***************************************************************************)
C2_ProfileDecides ==
    /\ \A it \in ScoredItems :
          it.proba_spam = Some(60) =>
             /\ req.profile = Some(K_bank) => it.pred = C_ham
             /\ req.profile = Some(K_aggressive) => it.pred = C_spam
    /\ (Thresholded /\ ~IsNone(req.profile) /\ Val(req.profile) \in ProfileKeys) =>
          Val(work.threshold) = PROFILE_DEFINITIONS[Val(req.profile)].threshold

\* C2, witness: a message scoring 0.60 sent to /predict with profile "bank"
\* under a process-wide threshold below 0.60 is "ham".
C2_Witness ==
    /\ Scoring /\ req.endpoint = "predict" /\ resp.status = 200
    /\ req.profile = Some(K_bank)
    /\ resp.body.proba_spam = Some(60)
    /\ resp.body.pred = C_ham
    /\ SPAM_THRESHOLD < 60

(***************************************************************************)
(* C3.  For every text scored by a classifier that exposes probabilities,  *)
(* on /predict, /batch and /file-predict alike, the label is "spam"        *)
(* exactly when the spam probability is at least the effective threshold   *)
(* (equality gives "spam"), and "ham" otherwise.                           *)
(***************************************************************************)
C3_LabelIffAtLeastThreshold ==
    \A it \in ScoredItems :
        ~IsNone(it.proba_spam) =>
           /\ ~IsNone(work.threshold)
           /\ it.pred = IF Val(it.proba_spam) >= Val(work.threshold)
                        THEN C_spam ELSE C_ham

\* C3, witness: a batch item whose probability equals the threshold is
\* "spam", next to an item below the threshold that is "ham".
C3_Witness ==
    /\ Scoring /\ req.endpoint = "batch" /\ resp.status = 200
    /\ \E it \in ScoredItems :
          it.proba_spam = work.threshold /\ it.pred = C_spam
    /\ \E it \in ScoredItems :
          ~IsNone(it.proba_spam) /\ Val(it.proba_spam) < Val(work.threshold)
          /\ it.pred = C_ham

(***************************************************************************)
(* C4.  A requested profile that, lowercased and alias-resolved, is no key *)
(* of the registry (or is absent or empty) raises no error: the request is *)
(* decided with the process-wide default threshold SPAM_THRESHOLD.         *)
(***************************************************************************)
C4_UnknownProfileFallsBack ==
    (Scoring /\ ~NamesProfile(req.profile)) =>
        /\ Thresholded => Val(work.threshold) = SPAM_THRESHOLD
        /\ (BundleLoaded /\ req.endpoint = "predict" /\ Strip(req.text) # <<>>) =>
              resp.status = 200 /\ Thresholded

\* C4, witness: profile "nope" is answered 200 with the process-wide
\* threshold, which here is not that of profile "default".
C4_Witness ==
    /\ Scoring /\ req.endpoint = "predict" /\ resp.status = 200
    /\ req.profile = Some(E_nope)
    /\ work.threshold = Some(SPAM_THRESHOLD)
    /\ SPAM_THRESHOLD # PROFILE_DEFINITIONS[K_default].threshold

(***************************************************************************)
(* C5.  Resolving a known alias, in any letter case, gives what resolving  *)
(* its canonical key gives; and every alias points at a registered key.    *)
(***************************************************************************)
C5_AliasResolvesAsCanonical ==
    /\ \A a \in DOMAIN PROFILE_ALIASES : PROFILE_ALIASES[a] \in DOMAIN PROFILE_DEFINITIONS
    /\ (Thresholded /\ ~IsNone(req.profile)
           /\ Lower(Val(req.profile)) \in DOMAIN PROFILE_ALIASES) =>
          Val(work.threshold) =
              resolve_threshold(Some(PROFILE_ALIASES[Lower(Val(req.profile))]),
                                SPAM_THRESHOLD)

\* C5, witness: "NEWSLETTER" is decided at 0.45, the threshold of
\* "marketing", under another process-wide threshold.
C5_Witness ==
    /\ Thresholded
    /\ req.profile = Some(E_NEWSLETTER)
    /\ work.threshold = Some(45)
    /\ SPAM_THRESHOLD # 45

(***************************************************************************)
(* C6.  While the bundle is not loaded, every /predict, /batch and         *)
(* /file-predict request is answered 503 at once, nothing is decoded,      *)
(* vectorized or scored, also when the input would fail validation; and    *)
(* 503 answers nothing but a missing bundle.                               *)
(***************************************************************************)
C6_NotReadyIs503 ==
    Scoring =>
        /\ ~BundleLoaded => (resp.status = 503 /\ work = NoWork)
        /\ resp.status = 503 => ~BundleLoaded

\* C6, witness: before the bundle is loaded a /predict request with a blank
\* text, and after a failed load a /batch request with no texts, get 503.
C6_Witness ==
    /\ Scoring /\ ~BundleLoaded /\ resp.status = 503
    /\ \/ pc = "start" /\ req.endpoint = "predict" /\ Strip(req.text) = <<>>
       \/ pc = "failed" /\ req.endpoint = "batch" /\ req.texts = <<>>

(***************************************************************************)
(* C7.  As stated: with the bundle loaded, an empty batch fails with 422,  *)
(* a batch longer than maxBatch with 413, every batch of 1..maxBatch       *)
(* texts succeeds, and exactly maxBatch items succeed while maxBatch+1     *)
(* fail, for every configured maxBatch.  With maxBatch = 0 the batch of    *)
(* exactly maxBatch items is the empty batch, which fails.                 *)
(***************************************************************************)
C7_LimitsForEveryMaxBatch ==
    (Scoring /\ req.endpoint = "batch" /\ BundleLoaded) =>
        LET n == Len(req.texts)
        IN  /\ n = 0 => resp.status = 422
            /\ n > MAX_BATCH => resp.status = 413
            /\ (1 <= n /\ n <= MAX_BATCH) => resp.status = 200
            /\ n = MAX_BATCH => resp.status = 200
            /\ n = MAX_BATCH + 1 => resp.status # 200

\* C7, amended: with the bundle loaded, an empty batch fails with 422, a
\* non-empty batch longer than maxBatch fails with 413 and every batch of
\* 1..maxBatch texts succeeds; for every configured maxBatch >= 1 exactly
\* maxBatch items succeed and maxBatch+1 fail, and with maxBatch = 0 no
\* batch succeeds.
C7_LimitsForPositiveMaxBatch ==
    (Scoring /\ req.endpoint = "batch" /\ BundleLoaded) =>
        LET n == Len(req.texts)
        IN  /\ n = 0 => resp.status = 422
            /\ (n > 0 /\ n > MAX_BATCH) => resp.status = 413
            /\ (1 <= n /\ n <= MAX_BATCH) => resp.status = 200
            /\ (MAX_BATCH >= 1 /\ n = MAX_BATCH) => resp.status = 200
            /\ n = MAX_BATCH + 1 => resp.status # 200
            /\ MAX_BATCH = 0 => resp.status # 200

\* C7, witness: a batch of exactly maxBatch = 2 texts succeeds.
C7_Witness ==
    /\ Scoring /\ req.endpoint = "batch" /\ BundleLoaded
    /\ MAX_BATCH = MaxBatchCfg
    /\ Len(req.texts) = MAX_BATCH
    /\ resp.status = 200

(***************************************************************************)
(* C8.  With the bundle loaded, a /predict request whose text is empty     *)
(* after trimming is rejected with 422 and reaches neither the vectorizer  *)
(* nor the classifier.                                                     *)
(***************************************************************************)
C8_BlankTextRejected ==
    (Scoring /\ req.endpoint = "predict" /\ BundleLoaded /\ Strip(req.text) = <<>>) =>
        /\ resp.status = 422
        /\ work.vec_calls = <<>>
        /\ work.clf_calls = 0

\* C8, witness: a text of blanks only is rejected.
C8_Witness ==
    /\ Scoring /\ req.endpoint = "predict" /\ BundleLoaded
    /\ req.text # <<>> /\ Strip(req.text) = <<>>
    /\ resp.status = 422

(***************************************************************************)
(* C9.  An accepted batch of N texts (1 <= N <= maxBatch), also one with   *)
(* texts that are empty after trimming, is answered with size N and        *)
(* exactly N items, the i-th item being the result for the i-th text.      *)
(***************************************************************************)
C9_BatchItemsInOrder ==
    (Scoring /\ req.endpoint = "batch" /\ BundleLoaded
        /\ 1 <= Len(req.texts) /\ Len(req.texts) <= MAX_BATCH) =>
        /\ resp.status = 200
        /\ resp.body.size = Len(req.texts)
        /\ Len(resp.body.items) = Len(req.texts)
        /\ \A i \in 1..Len(req.texts) :
              LET clf == Val(MODEL_BUNDLE).model
                  x   == Features(Strip(req.texts[i]))
                  it  == resp.body.items[i]
              IN  /\ it.text = Strip(req.texts[i])
                  /\ IF clf.has_predict_proba
                     THEN it.proba_spam =
                             Some(ProbaRow(clf, x)[SpamIdx(clf, Len(clf.classes))])
                     ELSE it.proba_spam = None /\ it.pred = Predict(clf, <<x>>)[1]

\* C9, witness: a batch of two different texts, the first empty after
\* trimming, is answered with two items that differ.
C9_Witness ==
    /\ Scoring /\ req.endpoint = "batch" /\ resp.status = 200
    /\ Len(req.texts) = 2
    /\ Strip(req.texts[1]) = <<>> /\ Strip(req.texts[2]) # <<>>
    /\ resp.body.size = 2
    /\ resp.body.items[1].proba_spam # resp.body.items[2].proba_spam

(***************************************************************************)
(* C10.  With the bundle loaded, an upload whose file name has an          *)
(* extension outside .csv, .xlsx, .xls, .txt is rejected with 415 before   *)
(* anything is decoded, vectorized or scored; no other format is tried.    *)
(***************************************************************************)
C10_UnsupportedExtensionRejected ==
    (Scoring /\ req.endpoint = "file-predict" /\ BundleLoaded
        /\ req.filename # <<>>
        /\ Lower(Suffix(req.filename)) \notin RecognizedExtensions) =>
        /\ resp.status = 415
        /\ work = NoWork

\* C10, witness: a .pdf upload whose content would read as text is
\* rejected with 415.
C10_Witness ==
    /\ Scoring /\ req.endpoint = "file-predict" /\ BundleLoaded
    /\ req.filename = <<"m",".","p","d","f">>
    /\ req.content.utf8 /\ req.content.lines # <<>>
    /\ resp.status = 415

(***************************************************************************)
(* Vocabulary of the properties of /file-predict.                          *)
(***************************************************************************)
\* An upload with a file name has been handled with the bundle loaded.
Upload ==
    /\ Scoring /\ req.endpoint = "file-predict"
    /\ BundleLoaded
    /\ req.filename # <<>>

\* What reading the upload at hand gives.
UploadRead == read_upload(Lower(Suffix(req.filename)), req.content)

\* The names of the columns of a table, as a set.
ColumnSet(df) == {df.columns[j] : j \in 1..Len(df.columns)}

(***************************************************************************)
(* C11.  An upload that decodes to a table without a column named exactly  *)
(* "text" ("Text" does not count) is rejected with 422; no other column is *)
(* taken in its place and nothing is vectorized or scored.                 *)
(***************************************************************************)
C11_MissingTextColumnRejected ==
    (Upload /\ UploadRead.status = 200 /\ T_text \notin ColumnSet(UploadRead.df)) =>
        /\ resp.status = 422
        /\ work.vec_calls = <<>>
        /\ work.clf_calls = 0
        /\ IsNone(work.threshold)

\* C11, witness: a .csv whose only column is "Text" is rejected with 422.
C11_Witness ==
    /\ Upload /\ UploadRead.status = 200
    /\ UploadRead.df.columns = <<T_Text>>
    /\ Len(UploadRead.df.data[T_Text]) = 1
    /\ resp.status = 422

\* The label and the probability the bundle's classifier gives one text
\* under a threshold.
ScoreOf(text, threshold) ==
    LET clf == Val(MODEL_BUNDLE).model
        x   == Features(text)
        p   == ProbaRow(clf, x)[SpamIdx(clf, Len(clf.classes))]
    IN  IF clf.has_predict_proba
        THEN [pred |-> IF p >= threshold THEN C_spam ELSE C_ham,
              proba_spam |-> Some(p)]
        ELSE [pred |-> Predict(clf, <<x>>)[1], proba_spam |-> None]

C13_NoProbabilityNoThreshold ==
    (Scoring /\ resp.status = 200 /\ ~Val(MODEL_BUNDLE).model.has_predict_proba) =>
        /\ \A it \in ScoredItems :
              /\ IsNone(it.proba_spam)
              /\ it.pred = Predict(Val(MODEL_BUNDLE).model,
                                   Transform(<<work.vec_calls[1][it.i]>>))[1]
        /\ req.endpoint = "predict" =>
              \A p \in RequestProfiles :
                  predict([req EXCEPT !.profile = p]).resp.body = resp.body
        /\ req.endpoint = "batch" =>
              \A p \in RequestProfiles :
                  batch([req EXCEPT !.profile = p]).resp.body = resp.body
        /\ req.endpoint = "file-predict" =>
              /\ ColumnSet(resp.body.table) = ColumnSet(UploadRead.df) \cup {N_pred}
              /\ \A p \in RequestProfiles :
                    file_predict([req EXCEPT !.profile = p]).resp.body = resp.body

\* C13, witness: under a classifier without predict_proba a text that
\* scores below the threshold of the requested profile "bank" is labelled
\* "spam", the class predicted, with no probability.
C13_Witness ==
    /\ Scoring /\ req.endpoint = "predict" /\ resp.status = 200
    /\ ~Val(MODEL_BUNDLE).model.has_predict_proba
    /\ req.profile = Some(K_bank)
    /\ Score(Features(resp.body.text)) < PROFILE_DEFINITIONS[K_bank].threshold
    /\ resp.body.pred = C_spam
    /\ IsNone(resp.body.proba_spam)

(***************************************************************************)
(* C14.  As stated: in every startup configuration and for every requested *)
(* profile, the threshold a request is decided with lies in [0,1].  The    *)
(* code takes float(SPAM_THRESHOLD) as it is: an override of 1.5 is the    *)
(* threshold of every request that names no registered profile.            *)
(***************************************************************************)
C14_ThresholdInUnitInterval ==
    Thresholded => (0 <= Val(work.threshold) /\ Val(work.threshold) <= 100)

(***************************************************************************)
(* C15.  If the artifact at MODEL_PATH does not hold both a 'vectorizer'   *)
(* and a 'model', loading fails, the bundle is never set, and no request   *)
(* is ever scored: every scoring request is answered 503 with nothing      *)
(* vectorized or classified, and /health reports the model as not loaded.  *)
(***************************************************************************)
C15_InvalidBundleNeverServes ==
    (disk.exists /\ (~disk.isdict \/ ~({"vectorizer", "model"} \subseteq disk.keys))) =>
        /\ IsNone(MODEL_BUNDLE)
        /\ pc # "done"
        /\ Scoring => (resp.status = 503 /\ work = NoWork)
        /\ (req # Idle /\ req.endpoint = "health") => ~resp.body.model_loaded

\* C15, witness: after the startup has failed on an artifact that holds a
\* 'model' but no 'vectorizer', an upload that would read well gets 503.
C15_Witness ==
    /\ pc = "failed"
    /\ disk.exists /\ "model" \in disk.keys /\ "vectorizer" \notin disk.keys
    /\ Scoring /\ req.endpoint = "file-predict"
    /\ req.filename # <<>> /\ UploadRead.status = 200
    /\ resp.status = 503

C17_BatchInvariant ==
    (Scoring /\ req.endpoint = "batch" /\ resp.status = 200) =>
        \A i \in 1..Len(req.texts) :
            LET alone  == batch([req EXCEPT !.texts = <<req.texts[i]>>])
                single == predict([endpoint |-> "predict", rid_header |-> None,
                                   profile |-> req.profile, text |-> req.texts[i]])
                it     == resp.body.items[i]
            IN  /\ alone.resp.status = 200
                /\ alone.work.threshold = work.threshold
                /\ alone.resp.body.items = <<it>>
                /\ Strip(req.texts[i]) # <<>> =>
                      /\ single.resp.status = 200
                      /\ single.work.threshold = work.threshold
                      /\ single.resp.body.text = it.text
                      /\ single.resp.body.pred = it.pred
                      /\ single.resp.body.proba_spam = it.proba_spam

\* C17, witness: a batch of two different texts whose items get different
\* labels, the second text not blank.
C17_Witness ==
    /\ Scoring /\ req.endpoint = "batch" /\ resp.status = 200
    /\ Len(req.texts) = 2
    /\ Strip(req.texts[2]) # <<>>
    /\ resp.body.items[1].pred # resp.body.items[2].pred
    /\ ~IsNone(resp.body.items[2].proba_spam)

(***************************************************************************)
(* C18.  Every successful upload, of a .csv, .xlsx, .xls or .txt file, is  *)
(* answered with a CSV attachment named "prediction_", then the uploaded   *)
(* file name without its last extension, then ".csv".                      *)
(***************************************************************************)
C18_OutputNamedAfterStem ==
    (Upload /\ resp.status = 200) =>
        LET ext  == Suffix(req.filename)
            stem == SubSeq(req.filename, 1, Len(req.filename) - Len(ext))
        IN  /\ Lower(ext) \in RecognizedExtensions
            /\ resp.body.media_type = "text/csv"
            /\ resp.body.filename =
                  <<"p","r","e","d","i","c","t","i","o","n","_">> \o stem
                      \o <<".","c","s","v">>

\* C18, witness: the workbook "m.xlsx" comes back as "prediction_m.csv" and
\* the text file "m.n.txt" as "prediction_m.n.csv".
C18_Witness ==
    /\ Upload /\ resp.status = 200
    /\ \/ /\ req.filename = <<"m",".","x","l","s","x">>
          /\ resp.body.filename =
                <<"p","r","e","d","i","c","t","i","o","n","_","m",".","c","s","v">>
       \/ /\ req.filename = <<"m",".","n",".","t","x","t">>
          /\ resp.body.filename =
                <<"p","r","e","d","i","c","t","i","o","n","_","m",".","n",".","c","s","v">>

(***************************************************************************)
(* C19.  As stated: the table returned for a successful upload has every   *)
(* column of the table read, with its values unchanged, and besides a      *)
(* 'pred' column, and a 'proba_spam' column exactly when the classifier    *)
(* has predict_proba, also when the input has a column of one of these     *)
(* names.  The code assigns df["pred"] and df["proba_spam"]: an input      *)
(* column of that name is overwritten with the labels or probabilities.    *)
(***************************************************************************)
C19_InputColumnsPreserved ==
    (Upload /\ resp.status = 200) =>
        LET input  == UploadRead.df
            output == resp.body.table
        IN  /\ \A c \in ColumnSet(input) :
                  c \in ColumnSet(output) /\ output.data[c] = input.data[c]
            /\ N_pred \in ColumnSet(output)
            /\ (N_proba_spam \in ColumnSet(output)) <=>
                  Val(MODEL_BUNDLE).model.has_predict_proba

(***************************************************************************)
(* Vocabulary of the properties of errors.                                 *)
(***************************************************************************)
\* The response at hand is an error.
Failed == req # Idle /\ resp.status # 200

\* The error was raised on purpose as a not-ready (503), validation (422,
\* 413, 400 for an upload without a name) or unsupported-format (415)
\* error.
Deliberate ==
    \/ resp.status \in {503, 422, 413, 415}
    \/ resp.status = 400 /\ req.endpoint = "file-predict" /\ req.filename = <<>>

\* The only body of a generic failure: no detail of the error, and the id
\* that RequestIDMiddleware attached to the request.
GenericFailure ==
    /\ resp.status = 500
    /\ resp.body = [detail |-> "Internal Server Error",
                    request_id |-> request_id(req.rid_header)]
    /\ resp.body.request_id = resp.request_id

(***************************************************************************)
(* C20.  As stated: every error raised while a request is handled, except  *)
(* the not-ready, validation and unsupported-format errors raised on       *)
(* purpose, and with the exceptions raised while an uploaded file is read  *)
(* among them, reaches the caller as a generic failure: no exception text  *)
(* in the body, and the id of the request in it.  The code answers an      *)
(* exception raised while the upload is read with 400 and the text of the  *)
(* exception.                                                              *)
(***************************************************************************)
C20_EveryOtherErrorIsGeneric ==
    (Failed /\ ~Deliberate) => GenericFailure

\* C20, amended: an exception raised while an uploaded file is read is
\* answered 400 with a detail that carries the exception's text and without
\* the request id in the body; every other error that is not a deliberate
\* not-ready, validation or unsupported-format error is answered as a
\* generic failure, with no exception text and with the request's id.
C20_UnexpectedErrorsAreGeneric ==
    /\ (Failed /\ ~Deliberate) =>
          IF req.endpoint = "file-predict" /\ UploadRead.status = 400
          THEN /\ resp.status = 400
               /\ resp.body = [detail |-> <<"Could not read file: ", UploadRead.exc>>]
               /\ UploadRead.exc # ""
          ELSE GenericFailure
    /\ (Upload /\ UploadRead.status = 400) => (Failed /\ ~Deliberate)

\* C20, witness: an upload with the header x-request-id: rid-1 that reads
\* to a table of no rows fails in the vectorizer and is answered with the
\* generic failure that carries rid-1.
C20_Witness ==
    /\ Upload /\ UploadRead.status = 200
    /\ req.rid_header = Some("rid-1")
    /\ resp.status = 500
    /\ resp.body.request_id = "rid-1"
    /\ resp.body.detail = "Internal Server Error"

(***************************************************************************)
(* C28.  The process-wide default threshold is fixed by the environment    *)
(* the process starts in: it is the override when float() accepts it;      *)
(* otherwise (no override, or one that does not parse, which is ignored    *)
(* and does not fail the startup) it is the threshold of the system        *)
(* profile, lowercased and alias-resolved, or that of profile "default"    *)
(* when the name is unknown.                                               *)
(***************************************************************************)
C28_DefaultThresholdAtStartup ==
    /\ SPAM_THRESHOLD =
          IF OverrideValid THEN OverrideValue
          ELSE LET k == CanonicalKey(Some(env.SYSTEM_PROFILE))
               IN  IF k \in ProfileKeys
                   THEN PROFILE_DEFINITIONS[k].threshold
                   ELSE PROFILE_DEFINITIONS[K_default].threshold
    /\ pc = "failed" =>
          (~disk.exists \/ ~disk.isdict
              \/ ~({"vectorizer", "model"} \subseteq disk.keys))

\* C28, witness: with the override "abc" and the system profile "FINANCIAL"
\* the startup succeeds and a request without a profile is decided at 0.65,
\* the threshold of "bank".
C28_Witness ==
    /\ env.SPAM_THRESHOLD = Some(<<"a","b","c">>)
    /\ env.SYSTEM_PROFILE = E_FINANCIAL
    /\ pc = "done"
    /\ SPAM_THRESHOLD = 65
    /\ Thresholded /\ IsNone(req.profile)
    /\ work.threshold = Some(65)

(***************************************************************************)
(* C30.  As stated: in every startup configuration without an override,    *)
(* the system_profile that /profiles reports is the key of one of the      *)
(* profiles listed in the same response, and default_threshold is that     *)
(* profile's threshold and the threshold of a request that names no        *)
(* profile.  The code reports the lowercased SYSTEM_PROFILE as configured: *)
(* an alias or an unknown name is the key of no listed profile.            *)
(***************************************************************************)
C30_ProfilesSelfConsistent ==
    (req # Idle /\ req.endpoint = "profiles" /\ IsNone(env.SPAM_THRESHOLD)) =>
        /\ \E i \in 1..Len(resp.body.profiles) :
              /\ resp.body.profiles[i].key = resp.body.system_profile
              /\ resp.body.profiles[i].threshold = resp.body.default_threshold
        /\ resp.body.default_threshold = resolve_threshold(None, SPAM_THRESHOLD)

(***************************************************************************)
(* Vocabulary of the properties of .csv uploads.                           *)
(***************************************************************************)
\* A .csv upload has been handled with the bundle loaded.
CsvUpload == Upload /\ Lower(Suffix(req.filename)) = <<".","c","s","v">>

\* The structured attempt of line 481 raises: the content is not UTF-8, or
\* pandas cannot parse it.
StructuredParseRaises == ~req.content.utf8 \/ read_csv(req.content).raised

\* The non-blank lines of the upload at hand.
NonBlankLines ==
    SelectSeq(DecodedLines(req.content), LAMBDA ln : Strip(ln) # <<>>)

\* The answer is a table with one scored row per non-blank line, in order.
RowPerNonBlankLine ==
    /\ resp.status = 200
    /\ resp.body.table.columns[1] = T_text
    /\ Len(resp.body.table.data[N_pred]) = Len(NonBlankLines)
    /\ resp.body.table.data[T_text] =
          [i \in 1..Len(NonBlankLines) |-> Strip(NonBlankLines[i])]
    /\ \A i \in 1..Len(NonBlankLines) :
          resp.body.table.data[N_pred][i] =
              ScoreOf(Strip(NonBlankLines[i]), Val(work.threshold)).pred

C25_UploadDecodedByFirstEncodingThatFits ==
    (Upload /\ Lower(Suffix(req.filename)) \in {<<".","t","x","t">>, <<".","c","s","v">>}
        /\ \E i \in 1..Len(FALLBACK_ENCODINGS) :
              Decodes(req.content, FALLBACK_ENCODINGS[i])) =>
        resp.status # 400

\* The phases of a file-scoring job, in the order of the state machine.
PhaseOrder ==
    <<"format_detected", "decoded", "column_resolved", "chunk_scored", "complete">>

\* The place of a phase in PhaseOrder.
PhaseRank(p) == CHOOSE k \in 1..Len(PhaseOrder) : PhaseOrder[k] = p

\* A /file-predict request has been handled.
FileJob == Scoring /\ req.endpoint = "file-predict"

\* The job at hand has passed this phase.
Passed(p) == \E i \in 1..Len(work.phases) : work.phases[i] = p

\* The phase the job at hand ended in: "complete", or "failed".
JobEnd == IF Passed("complete") THEN "complete" ELSE "failed"

(***************************************************************************)
(* C24.  Every file-scoring job passes through the phases format-detected, *)
(* decoded, column-resolved, chunk-scored (zero or more times) and         *)
(* complete in that order: a phase is entered only after every phase       *)
(* before it (chunk-scored apart, which may be passed no time), and only   *)
(* chunk-scored is ever entered twice in a row.  No text is handed to the  *)
(* vectorizer before the text column has been resolved.  Every job ends in *)
(* complete, with the answer 200, or in failed, with an error answer; and  *)
(* a job that failed stopped in the phase it had reached.                  *)
(***************************************************************************)
C24_JobPhasesInOrder ==
    FileJob =>
        LET p == work.phases IN
        /\ \A i \in 1..Len(p) : \E k \in 1..Len(PhaseOrder) : PhaseOrder[k] = p[i]
        /\ \A i \in 1..(Len(p) - 1) :
              \/ PhaseRank(p[i]) < PhaseRank(p[i + 1])
              \/ p[i] = "chunk_scored" /\ p[i + 1] = "chunk_scored"
        /\ \A i \in 1..Len(p) : \A k \in 1..(PhaseRank(p[i]) - 1) :
              PhaseOrder[k] # "chunk_scored" =>
                  \E j \in 1..(i - 1) : p[j] = PhaseOrder[k]
        /\ work.vec_calls # <<>> => Passed("column_resolved")
        /\ Passed("chunk_scored") => work.clf_calls > 0
        /\ JobEnd = "complete" <=> resp.status = 200
        /\ JobEnd = "failed" <=> Failed
        /\ Passed("complete") => p[Len(p)] = "complete"

\* A job has been scored and is complete.
C24_Witness ==
    /\ FileJob /\ resp.status = 200
    /\ work.phases = PhaseOrder

\* Jobs fail from the start, and from each phase before the scoring.
C24_FailedFromStart == FileJob /\ Failed /\ work.phases = <<>>
C24_FailedFromFormatDetected ==
    FileJob /\ Failed /\ work.phases = <<"format_detected">>
C24_FailedFromDecoded ==
    FileJob /\ Failed /\ work.phases = <<"format_detected", "decoded">>
C24_FailedFromColumnResolved ==
    FileJob /\ Failed
        /\ work.phases = <<"format_detected", "decoded", "column_resolved">>

(***************************************************************************)
(* The startup and /health step by step: _startup assigns the three        *)
(* globals one after another, and health reads them one after another; a   *)
(* /health request may be handled while the startup is under way.          *)
(***************************************************************************)
\* _startup with the bundle published first, before the file's provenance
\* and the metadata are recorded.
startup_assigns_bundle_first(at) ==
    IF at = "loaded" THEN "MODEL_BUNDLE"
    ELSE IF at = "assigned_1" THEN "MODEL_FILE_INFO"
    ELSE "MODEL_META"

\* _startup, lines 233-246: the global assigned at each position after
\* load_bundle has returned.
startup_assigns(at) ==
    IF at = "loaded" THEN "MODEL_FILE_INFO"
    ELSE IF at = "assigned_1" THEN "MODEL_META"
    ELSE "MODEL_BUNDLE"

\* _startup, lines 222-224: load the bundle; an exception ends the startup.
StartupLoad ==
    /\ pc = "start"
    /\ LET r == load_bundle(disk)
       IN  IF r.raised
           THEN pc' = "failed" /\ UNCHANGED bundle
           ELSE pc' = "loaded" /\ bundle' = r.obj
    /\ UNCHANGED <<config, MODEL_BUNDLE, MODEL_META, MODEL_FILE_INFO, req, resp,
                   work, cli>>

\* _startup, lines 233-246: the next assignment of a global.
StartupAssign ==
    /\ pc \in {"loaded", "assigned_1", "assigned_2"}
    /\ LET g == startup_assigns(pc)
       IN  /\ MODEL_FILE_INFO' =
                 IF g = "MODEL_FILE_INFO"
                 THEN [path |-> "models/bundle_svm.joblib", exists |-> TRUE,
                       size_bytes |-> Some(1), mtime |-> Some(1),
                       sha256 |-> Some("sha256"), load_seconds |-> 1]
                 ELSE MODEL_FILE_INFO
           /\ MODEL_META' =
                 IF g = "MODEL_META"
                 THEN [vectorizer |-> "TfidfVectorizer",
                       classifier |-> Val(bundle).model.name,
                       bundle_meta |-> IF "meta" \in Val(bundle).keys
                                       THEN "meta" ELSE "{}"]
                 ELSE MODEL_META
           /\ MODEL_BUNDLE' = IF g = "MODEL_BUNDLE" THEN bundle ELSE MODEL_BUNDLE
    /\ pc' = IF pc = "loaded" THEN "assigned_1"
             ELSE IF pc = "assigned_1" THEN "assigned_2"
             ELSE "done"
    /\ UNCHANGED <<config, bundle, req, resp, work, cli>>

\* health, line 314: a request arrives and the handler reads MODEL_BUNDLE.
HealthReadBundle ==
    /\ req = Idle
    /\ \E h \in RequestIdHeaders :
          req' = [endpoint |-> "health", rid_header |-> h]
    /\ work' = [at |-> "ok", ok |-> ~IsNone(MODEL_BUNDLE),
                model_file |-> <<>>, model_meta |-> <<>>]
    /\ UNCHANGED <<config, loaded, resp, cli>>

\* health, line 318: the handler reads MODEL_FILE_INFO.
HealthReadFileInfo ==
    /\ req # Idle /\ work.at = "ok"
    /\ work' = [work EXCEPT !.at = "model_file", !.model_file = MODEL_FILE_INFO]
    /\ UNCHANGED <<config, loaded, req, resp, cli>>

\* health, line 319: the handler reads MODEL_META.
HealthReadMeta ==
    /\ req # Idle /\ work.at = "model_file"
    /\ work' = [work EXCEPT !.at = "model_meta", !.model_meta = MODEL_META]
    /\ UNCHANGED <<config, loaded, req, resp, cli>>

\* health, lines 315-325: the handler returns what it has read.
HealthReturn ==
    /\ req # Idle /\ work.at = "model_meta"
    /\ resp' = Ok("health", request_id(req.rid_header),
                  [ok |-> work.ok, model_loaded |-> work.ok,
                   model_file |-> work.model_file,
                   model_meta |-> work.model_meta,
                   config |-> [system_profile |-> SYSTEM_PROFILE,
                               spam_threshold |-> SPAM_THRESHOLD,
                               max_batch |-> MAX_BATCH]],
                  NoWork).resp
    /\ work' = [work EXCEPT !.at = "returned"]
    /\ UNCHANGED <<config, loaded, req, cli>>

\* The response has been sent.
HealthRespond ==
    /\ req # Idle /\ work.at = "returned"
    /\ req' = Idle
    /\ resp' = Idle
    /\ work' = NoWork
    /\ UNCHANGED <<config, loaded, cli>>

NextStartup ==
    \/ StartupLoad
    \/ StartupAssign
    \/ HealthReadBundle
    \/ HealthReadFileInfo
    \/ HealthReadMeta
    \/ HealthReturn
    \/ HealthRespond

SpecStartup == Init /\ [][NextStartup]_vars

\* A dict has been filled.
Populated(d) == DOMAIN d # {}

\* /health has answered.
HealthAnswered == req # Idle /\ req.endpoint = "health" /\ resp # Idle

C29_Interleaved ==
    /\ HealthAnswered
    /\ ~resp.body.model_loaded
    /\ Populated(resp.body.model_file)

(***************************************************************************)
(* The offline job: vocabulary.                                            *)
(***************************************************************************)
\* The job has truncated its output.
Truncated ==
    /\ main.pc \notin {"load", "prepare"}
    /\ main.at \notin {"load", "prepare"}

\* The places of the header lines in the output.
HeaderPlaces == {k \in 1..Len(output_file) : output_file[k].header}

\* The rows of the input that the first k chunks hold.
RowsOfChunks(k) == Min(k * args.chunksize, Len(InputRows(args.input)))

\* The number of chunks of the input.
NumChunks ==
    CHOOSE k \in 0..Len(InputRows(args.input)) :
        /\ RowsOfChunks(k) = Len(InputRows(args.input))
        /\ \A m \in 0..(k - 1) : RowsOfChunks(m) < Len(InputRows(args.input))

\* The scored rows of the j-th chunk, as the job writes them.
ScoredRows(j) ==
    RowLines(out_chunk(main.model,
                       next_chunk(args.input, main.enc, RowsOfChunks(j - 1),
                                  args.chunksize).df,
                       main.tcol, args.threshold))

\* The scored rows of the first k chunks, in input order.
RECURSIVE ScoredRowsUpTo(_)
ScoredRowsUpTo(k) ==
    IF k = 0 THEN <<>> ELSE ScoredRowsUpTo(k - 1) \o ScoredRows(k)

(***************************************************************************)
(* C21.  As stated: file-upload ingestion never hands more than chunkSize  *)
(* rows to one vectorize/score call, whatever the chunk size: an upload    *)
(* with more rows than the chunk size is scored by several calls, none of  *)
(* more rows than the chunk size.  file_predict has no chunk size: it      *)
(* hands every row of the upload to one vec.transform call.                *)
(***************************************************************************)
C21_UploadScoredInBoundedChunks ==
    (Upload /\ resp.status = 200) =>
        \A chunkSize \in JobChunkSizes :
            \A k \in 1..Len(work.vec_calls) : Len(work.vec_calls[k]) <= chunkSize

(***************************************************************************)
(* C22.  In the offline job, once the output has been truncated, a header  *)
(* line is in the output only as its first line: it is written with the    *)
(* first chunk (a chunk waiting to be written starts with the header       *)
(* exactly when no chunk has been written yet), never by a later chunk,    *)
(* and it is there once any chunk is complete; the finished output of an   *)
(* input of one or more chunks has the header as its first line and        *)
(* nowhere else.                                                           *)
(***************************************************************************)
C22_HeaderWrittenOnce ==
    Truncated =>
        /\ HeaderPlaces \subseteq {1}
        /\ main.i >= 1 => HeaderPlaces = {1}
        /\ main.pc = "write" =>
              /\ \A k \in 2..Len(main.pending) : ~main.pending[k].header
              /\ (main.i = 0 /\ output_file = <<>>) => main.pending[1].header
              /\ main.i >= 1 => ~main.pending[1].header
        /\ main.pc = "done" =>
              /\ main.i = NumChunks
              /\ main.i >= 1
              /\ HeaderPlaces = {1}
              /\ Len(output_file) = 1 + Len(InputRows(args.input))

\* C22, witness: a job of two chunks is done.
C22_Witness ==
    /\ main # None /\ main.pc = "done"
    /\ main.i = 2
    /\ HeaderPlaces = {1}
    /\ Len(output_file) >= 3

(***************************************************************************)
(* C23.  As stated: at every point after the output has been truncated,    *)
(* it holds the header followed by the scored rows of exactly the first k  *)
(* chunks, k the number of chunks completed, also after a cancellation or  *)
(* a failure.  The job writes the header with the first chunk only, so the *)
(* output is empty until then, and stays empty when the first chunk fails; *)
(* and to_csv appends line after line, so a cancellation during the write  *)
(* leaves a part of a chunk.                                               *)
(***************************************************************************)
C23_OutputIsHeaderAndWholeChunks ==
    Truncated =>
        /\ output_file # <<>>
        /\ output_file[1].header
        /\ Tail(output_file) = ScoredRowsUpTo(main.i)

\* What holds of the output: once a chunk is complete the output is the
\* header and the scored rows of the completed chunks, followed by the lines
\* already written of the chunk being written.
OutputAppendOnly ==
    Truncated =>
        LET whole == IF main.i = 0 THEN <<>>
                     ELSE <<HeaderLine(main.out_chunk)>> \o ScoredRowsUpTo(main.i)
        IN  /\ Len(output_file) >= Len(whole)
            /\ SubSeq(output_file, 1, Len(whole)) = whole
            /\ main.pc # "write" =>
                  \/ output_file = whole
                  \/ main.pc = "cancelled"
            /\ main.pc = "failed" => output_file = whole

(***************************************************************************)
(* C27.  The spam probability is taken from the same column on the         *)
(* single-item, batch, file-upload and offline paths: the column of the    *)
(* class named "spam" if there is one, else the second column of a matrix  *)
(* of two columns, else the first.  For every row the offline job has      *)
(* scored with a classifier that has predict_proba, the probability it     *)
(* writes, and the probabilities that /predict, /batch and /file-predict   *)
(* answer for the same text with the same bundle, are all the entry of     *)
(* that column.                                                            *)
(***************************************************************************)
C27_SameSpamColumnOnAllPaths ==
    (main.pc = "write" /\ main.model.has_predict_proba /\ BundleLoaded) =>
        LET clf     == main.model
            classes == clf.classes
            named   == {j \in 1..Len(classes) : classes[j] = C_spam}
            column  == IF named # {}
                       THEN CHOOSE j \in named : \A k \in named : j <= k
                       ELSE IF Len(classes) = 2 THEN 2 ELSE 1
            texts   == main.vec_calls[Len(main.vec_calls)]
        IN  \A i \in 1..Len(texts) :
                LET p      == ProbaRow(clf, Features(texts[i]))[column]
                    single == predict([endpoint |-> "predict", rid_header |-> None,
                                       profile |-> None, text |-> texts[i]])
                    many   == batch([endpoint |-> "batch", rid_header |-> None,
                                     profile |-> None, texts |-> <<texts[i]>>])
                    upload == file_predict(
                                 [endpoint |-> "file-predict", rid_header |-> None,
                                  profile |-> None,
                                  filename |-> <<"m", ".", "t", "x", "t">>,
                                  content |-> [utf8 |-> TRUE, cp1252 |-> TRUE,
                                               workbook |-> FALSE,
                                               lines |-> << <<texts[i]>> >>]])
                IN  /\ main.out_chunk.data[N_proba_spam][i] = p
                    /\ single.resp.status = 200
                    /\ single.resp.body.proba_spam = Some(p)
                    /\ many.resp.status = 200
                    /\ many.resp.body.items[1].proba_spam = Some(p)
                    /\ upload.resp.status = 200
                    /\ upload.resp.body.table.data[N_proba_spam] = <<p>>

\* C27, witness: the job has scored a chunk with a classifier whose first
\* class is "spam", where the named column and the second of two differ.
C27_Witness ==
    /\ main # None /\ main.pc = "write" /\ BundleLoaded
    /\ main.model = Clf_SpamFirst
    /\ main.out_chunk.data[N_proba_spam][1] # 50

====
